---- MODULE Spec2Model ----
(***************************************************************************)
(* A model of vite's stylesheet plugins (packages/vite/src/node/plugins/   *)
(* css.ts): the build-time aggregation and pruning of cssPostPlugin, the   *)
(* @import hoisting pass, the compile pipeline of cssPlugin/compileCSS and *)
(* the inline url() rewrite.                                               *)
(*                                                                         *)
(* A stylesheet text is a sequence of top-level nodes.  A node is a record *)
(*   [name, n, kids, min]                                                  *)
(* name "import" is an '@import' at-rule, "media" an at-rule that holds    *)
(* child nodes, "rule" any other rule; n tells rules of one name apart;    *)
(* min tells whether the minifier has rewritten the node.                  *)
(***************************************************************************)
EXTENDS Integers, Sequences, FiniteSets, Bags, TLC

VARIABLES
    \* the resolved configuration and the host bundler
    config,      \* ResolvedConfig: [cssCodeSplit, minify, ssr]
    outputs,     \* the NormalizedOutputOptions of the build: [format, skip]
    phase,       \* the host's position in the build
    build,       \* number of builds started
    bundle,      \* per output: the chunks of the bundle, in key order
    emitted,     \* the bag of files handed to this.emitFile in this build
    \* cssPostPlugin's closure
    styles,                   \* Map id -> css
    pureCssChunks,            \* Set of chunk file names
    outputToExtractedCSSMap,  \* Map output -> css
    hasEmitted,
    \* removedPureCssFilesCache.get(config)
    removedPureCssFiles,
    \* the invocations in flight
    rc,          \* renderChunk, per output and chunk
    gb,          \* generateBundle, per output
    \* cssPlugin's closure and the caches of the module
    moduleCache,          \* Map id -> scoped-class exports (cssModulesCache)
    postcssConfigCache,   \* postcssConfigCache.get(config)
    postcssLoads,         \* number of calls of postcssrc
    watchFiles,           \* the files handed to this.addWatchFile
    moduleGraph,          \* server.moduleGraph: per module in it, its edges
    tf,                   \* the cssPlugin.transform invocations, in call order
    \* hoistAtImports on its own
    hoistIn,     \* the css handed in
    hoistOut,    \* the css returned
    hoistPc,     \* "call" before the call, "done" after it
    \* rewriteCssUrls on its own
    urlCss,          \* the css handed in
    remaining,       \* asyncReplace: the text still to scan
    rewritten,       \* asyncReplace: the text produced so far
    replacerCalls,   \* the urls the replacer was called with, in order
    urlPc,           \* "run" while the call runs, "done" after it
    \* the callers of the resolvers, each on its own
    resolveIn,       \* the specifier and what the file system holds
    resolveOut,      \* the caller, the resolvers it asked, what it returned
    resolvePc        \* "call" before the call, "done" after it

hostVars == <<config, outputs, phase, build, bundle, emitted>>
postVars == <<styles, pureCssChunks, outputToExtractedCSSMap, hasEmitted>>
buildVars == <<hostVars, postVars, removedPureCssFiles, rc, gb>>
compileVars ==
    <<moduleCache, postcssConfigCache, postcssLoads, watchFiles, moduleGraph, tf>>
hoistVars == <<hoistIn, hoistOut, hoistPc>>
urlVars == <<urlCss, remaining, rewritten, replacerCalls, urlPc>>
resolveVars == <<resolveIn, resolveOut, resolvePc>>
textVars == <<hoistVars, urlVars, resolveVars>>

vars == <<buildVars, compileVars, textVars>>

(***************************************************************************)
(* Bounds.  MaxRules and MaxKids bound the stylesheets handed to           *)
(* hoistAtImports on its own; MaxBuilds bounds the builds of one plugin    *)
(* instance (one build, then rebuilds in watch mode); MaxTasks bounds the   *)
(* cssPlugin.transform invocations that are in flight together; MaxPieces  *)
(* bounds the pieces a value handed to rewriteCssUrls is put together of.  *)
(***************************************************************************)
MaxRules == 3
MaxKids == 1
MaxBuilds == 2
MaxTasks == 2
MaxPieces == 2

----------------------------------------------------------------------------
(* Stylesheet texts *)

Node(name, n, kids) == [name |-> name, n |-> n, kids |-> kids, min |-> FALSE]

AtImport(n) == Node("import", n, <<>>)
Rule(n) == Node("rule", n, <<>>)
Media(kids) == Node("media", 0, kids)

LeafNodes == {AtImport(1), AtImport(2), Rule(1), Rule(2)}

SeqsUpTo(S, k) == UNION {[1..m -> S] : m \in 0..k}

IsImport(node) == node.name = "import"
NotImport(node) == ~IsImport(node)

\* css.includes('@import'): the text holds an '@import', at any depth
IncludesAtImport(css) ==
    \E i \in 1..Len(css) :
        \/ IsImport(css[i])
        \/ \E j \in 1..Len(css[i].kids) : IsImport(css[i].kids[j])

----------------------------------------------------------------------------
(* hoistAtImports / AtImportHoistPlugin *)

\* postcss's parse: every node of the tree is an object of its own; the
\* model gives each its path <<i>> or <<i, j>> as identity.
PostcssParse(css) ==
    [i \in 1..Len(css) |->
        [id |-> <<i>>, name |-> css[i].name, n |-> css[i].n, min |-> css[i].min,
         kids |-> [j \in 1..Len(css[i].kids) |->
                     [id |-> <<i, j>>, name |-> css[i].kids[j].name,
                      n |-> css[i].kids[j].n, min |-> css[i].kids[j].min,
                      kids |-> <<>>]]]]

\* Result.css: the tree written back as text
PostcssStringify(root) ==
    [i \in 1..Len(root) |->
        [name |-> root[i].name, n |-> root[i].n, min |-> root[i].min,
         kids |-> [j \in 1..Len(root[i].kids) |->
                     [name |-> root[i].kids[j].name, n |-> root[i].kids[j].n,
                      min |-> root[i].kids[j].min, kids |-> <<>>]]]]

IsAtRule(node) == node.name \in {"import", "media"}

RECURSIVE WalkNodes(_)
\* Container.walk: each child, then the child's own children
WalkNodes(nodes) ==
    IF nodes = <<>> THEN <<>>
    ELSE <<Head(nodes)>> \o WalkNodes(Head(nodes).kids) \o WalkNodes(Tail(nodes))

\* root.walkAtRules: the at-rules of the tree in walk order
WalkAtRules(root) == SelectSeq(WalkNodes(root), IsAtRule)

RECURSIVE CollectImportsPush(_, _)
CollectImportsPush(walk, imports) ==
    IF walk = <<>> THEN imports
    ELSE CollectImportsPush(Tail(walk),
            IF Head(walk).name = "import" THEN imports \o <<Head(walk)>>
            ELSE imports)

RECURSIVE CollectImports(_, _)
\* the walkAtRules callback: imports.unshift(rule) for every rule named import
CollectImports(walk, imports) ==
    IF walk = <<>> THEN imports
    ELSE CollectImports(Tail(walk),
            IF Head(walk).name = "import" THEN <<Head(walk)>> \o imports
            ELSE imports)

\* Container.removeChild, applied to the node's parent (the root or a node)
RemoveChild(root, id) ==
    LET keep(node) == node.id # id
        top == SelectSeq(root, keep)
    IN  [i \in 1..Len(top) |-> [top[i] EXCEPT !.kids = SelectSeq(@, keep)]]

\* root.prepend(node): the node leaves its parent and becomes the first child
RootPrepend(root, node) == <<node>> \o RemoveChild(root, node.id)

RECURSIVE PrependEach(_, _)
\* imports.forEach((i) => root.prepend(i))
PrependEach(root, imports) ==
    IF imports = <<>> THEN root
    ELSE PrependEach(RootPrepend(root, Head(imports)), Tail(imports))

\* AtImportHoistPlugin.Once
AtImportHoistPlugin(root) ==
    PrependEach(root, CollectImports(WalkAtRules(root), <<>>))

HoistAtImports(css) == PostcssStringify(AtImportHoistPlugin(PostcssParse(css)))

----------------------------------------------------------------------------
(* Module ids and the request patterns *)

\* A module id: the file's base name, whether ".module" stands before the
\* extension, the extension, and the markers of the query string.
Id(base, module, ext, query) ==
    [base |-> base, module |-> module, ext |-> ext, query |-> query]

CssLangs == {"css", "less", "sass", "scss", "styl", "stylus", "pcss", "postcss"}

\* cssLangRE.test(request)
IsCSSRequest(id) == id.ext \in CssLangs
\* cssModuleRE.test(id)
CssModuleRE(id) == id.module /\ id.ext \in CssLangs
CommonjsProxyRE(id) == "commonjs-proxy" \in id.query
InlineRE(id) == "inline" \in id.query
InlineCSSRE(id) == "inline-css" \in id.query
HtmlProxyRE(id) == "html-proxy" \in id.query
UsedRE(id) == "used" \in id.query

CssA == Id("a", FALSE, "css", {})
CssB == Id("b", FALSE, "css", {})
JsMain == Id("main", FALSE, "js", {})

----------------------------------------------------------------------------
(* File names and chunk code *)

\* File names and import paths are strings of characters.
MainFile == <<"m", ".", "j", "s">>
StyleFile == <<"s", "t", "y", "l", "e", ".", "j", "s">>
ShortFile == <<"s">>

RECURSIVE LastSlash(_, _)
LastSlash(file, i) ==
    IF i = 0 THEN 0 ELSE IF file[i] = "/" THEN i ELSE LastSlash(file, i - 1)

\* path.basename(file)
Basename(file) == SubSeq(file, LastSlash(file, Len(file)) + 1, Len(file))

IsSuffix(suffix, str) ==
    /\ Len(suffix) <= Len(str)
    /\ SubSeq(str, Len(str) - Len(suffix) + 1, Len(str)) = suffix

\* The code of a chunk is a sequence of pieces: a side-effect import
\* statement  import<ws>"<path>";<nl>,  a call  require(<ws>"<path>");<nl>,
\* the comment left by pruning, or any other text of a given length.
ImportStmt(ws, path, nl) == [t |-> "import", ws |-> ws, path |-> path, nl |-> nl]
RequireStmt(ws, path, nl) == [t |-> "require", ws |-> ws, path |-> path, nl |-> nl]
Text(len) == [t |-> "text", len |-> len]
InjectCode(css) == [t |-> "inject", css |-> css]

Max(a, b) == IF a >= b THEN a ELSE b

\* the number of characters of a statement the empty-chunk pattern matches
MatchLength(piece) ==
    IF piece.t = "import"
    THEN 6 + piece.ws + 1 + Len(piece.path) + 2 + (IF piece.nl THEN 1 ELSE 0)
    ELSE 8 + piece.ws + 1 + Len(piece.path) + 3 + (IF piece.nl THEN 1 ELSE 0)

\* `/* empty css ${''.padEnd(m.length - 15)}*/`
EmptyCssComment(m) == [t |-> "comment", pad |-> Max(m - 15, 0)]

\* the line breaks of one piece: the optional one that ends a statement (its
\* white space is blanks); the placeholder comment is written without one
PieceLineBreaks(piece) ==
    IF piece.t \in {"import", "require"} /\ piece.nl THEN 1 ELSE 0

RECURSIVE StatementLineBreaks(_)
\* the line breaks of the statements and placeholders of a chunk's code
StatementLineBreaks(code) ==
    IF code = <<>> THEN 0
    ELSE PieceLineBreaks(Head(code)) + StatementLineBreaks(Tail(code))

PieceLength(piece) ==
    CASE piece.t \in {"import", "require"} -> MatchLength(piece)
      [] piece.t = "comment" -> 13 + piece.pad + 2
      [] piece.t = "text" -> piece.len
      [] OTHER -> 1

RECURSIVE CodeLength(_)
\* code.length
CodeLength(code) ==
    IF code = <<>> THEN 0 ELSE PieceLength(Head(code)) + CodeLength(Tail(code))

\* emptyChunkRE matches the piece: an import (format es) or a require (any
\* other format) whose path ends with the base name of a pure css chunk
EmptyChunkREMatches(piece, format, pure) ==
    /\ piece.t = (IF format = "es" THEN "import" ELSE "require")
    /\ \E file \in pure : IsSuffix(Basename(file), piece.path)

\* chunk.code.replace(emptyChunkRE, (m) => ...)
StripEmptyChunkImports(code, format, pure) ==
    [k \in 1..Len(code) |->
        IF code[k].t \in {"import", "require"}
           /\ EmptyChunkREMatches(code[k], format, pure)
        THEN EmptyCssComment(MatchLength(code[k]))
        ELSE code[k]]

----------------------------------------------------------------------------
(* The chunks the host bundler hands to the plugin *)

Chunk(fileName, name, modules, imports, code) ==
    [fileName |-> fileName, name |-> name, modules |-> modules,
     imports |-> imports, code |-> code,
     importedCss |-> {}, importedAssets |-> {}]

Undefined == [undefined |-> TRUE]

HasFile(b, file) == \E i \in 1..Len(b) : b[i].fileName = file

\* bundle[file]
BundleGet(b, file) ==
    IF HasFile(b, file)
    THEN b[CHOOSE i \in 1..Len(b) : b[i].fileName = file]
    ELSE Undefined

\* the statement by which a chunk of the given format loads ./<file>
LoadStmt(format, file) ==
    CASE format = "es" -> <<ImportStmt(0, <<".", "/">> \o file, TRUE)>>
      [] format = "cjs" -> <<RequireStmt(0, <<".", "/">> \o file, TRUE)>>
      [] OTHER -> <<Text(9)>>

\* An entry chunk with a script and a stylesheet that imports a chunk holding
\* one stylesheet; the css chunk's file name is the graph's parameter.
Graph(cssFile, format) ==
    << Chunk(MainFile, "main", <<JsMain, CssB>>, <<cssFile>>,
             LoadStmt(format, cssFile) \o <<Text(7)>>),
       Chunk(cssFile, "style", <<CssA>>, <<>>, <<Text(2)>>) >>

CssFiles == {StyleFile, ShortFile}

Formats == {"es", "cjs", "system"}

Output(format, skip) == [format |-> format, skip |-> skip]

\* The outputs of one build: the modern output alone, or followed by a
\* second one; __vite_skip_asset_emit__ is set on legacy outputs only.
OutputLists ==
    { <<Output("es", FALSE)>>,
      <<Output("es", FALSE), Output("cjs", FALSE)>>,
      <<Output("es", FALSE), Output("system", FALSE)>>,
      <<Output("es", FALSE), Output("system", TRUE)>> }

\* The fields of the resolved config the plugins read: build.cssCodeSplit,
\* build.minify, build.ssr, whether base is relative, build.watch, whether
\* css.modules is not false, command, and css.postcss: "inline" for an object, else
\* what postcss-load-config finds: "found", "none" (No PostCSS Config found)
\* or "error" (any other failure).
Config(cssCodeSplit, minify, ssr, relativeBase) ==
    [cssCodeSplit |-> cssCodeSplit, minify |-> minify, ssr |-> ssr,
     relativeBase |-> relativeBase, watch |-> FALSE, cssModules |-> TRUE,
     postcss |-> "none", command |-> "build"]

Configs ==
    { Config(TRUE, TRUE, FALSE, FALSE), Config(TRUE, FALSE, FALSE, FALSE),
      Config(FALSE, TRUE, FALSE, FALSE), Config(FALSE, FALSE, FALSE, TRUE),
      Config(TRUE, FALSE, TRUE, TRUE) }

OutputIds == DOMAIN outputs

----------------------------------------------------------------------------
(* Stylesheets of the build *)

\* a rule whose value holds the placeholder of an emitted asset
AssetRule(n) == Node("asset", n, <<>>)

\* the compiled css the host hands to cssPostPlugin.transform
PostTexts == { <<>>, <<Rule(1)>>, <<AtImport(1), AssetRule(1)>> }

MinifyNode(node) ==
    [node EXCEPT !.min = TRUE,
                 !.kids = [j \in 1..Len(@) |-> [@[j] EXCEPT !.min = TRUE]]]

\* minifyCSS: esbuild's transform rewrites every rule and keeps their order
MinifyCSS(css) == [i \in 1..Len(css) |-> MinifyNode(css[i])]

\* css.replace(assetUrlRE, ...): the placeholder becomes the url of the
\* emitted file, base-prefixed or, for a relative base and extracted css,
\* relative to the css file
ReplaceAssetUrls(css, inlined) ==
    [i \in 1..Len(css) |->
        IF css[i].name = "asset"
        THEN [css[i] EXCEPT !.name =
                IF ~config.relativeBase \/ inlined THEN "url-base" ELSE "url-relative"]
        ELSE css[i]]

\* the file names added to chunk.viteMetadata.importedAssets
AssetFilenames(css) == {css[i].n : i \in {k \in 1..Len(css) : css[k].name = "asset"}}

\* processChunkCSS(css, { inlined, minify })
ProcessChunkCSS(css, inlined, minify) ==
    LET replaced == ReplaceAssetUrls(css, inlined)
        hoisted == IF IncludesAtImport(replaced) THEN HoistAtImports(replaced)
                   ELSE replaced
    IN  IF minify /\ config.minify THEN MinifyCSS(hoisted) ELSE hoisted

\* the css of the first module alone
ChunkCSSOfFirst(ids) ==
    IF ids # <<>> /\ Head(ids) \in DOMAIN styles THEN styles[Head(ids)] ELSE <<>>

RECURSIVE ChunkCSS(_)
\* renderChunk: chunkCSS += styles.get(id) for the ids of chunk.modules
ChunkCSS(ids) ==
    IF ids = <<>> THEN <<>>
    ELSE (IF Head(ids) \in DOMAIN styles THEN styles[Head(ids)] ELSE <<>>)
         \o ChunkCSS(Tail(ids))

\* isPureCssChunk, were every stylesheet request enough
IsPureCssChunkByRequest(ids) == \A k \in 1..Len(ids) : IsCSSRequest(ids[k])

\* renderChunk: isPureCssChunk
IsPureCssChunk(ids) ==
    \A k \in 1..Len(ids) :
        ~(~IsCSSRequest(ids[k]) \/ CssModuleRE(ids[k]) \/ CommonjsProxyRE(ids[k]))

----------------------------------------------------------------------------
(* The build: buildStart, transform, renderChunk, generateBundle *)

EmptyMap == <<>>

Range(seq) == {seq[k] : k \in 1..Len(seq)}

MapSet(map, key, value) ==
    [k \in DOMAIN map \cup {key} |-> IF k = key THEN value ELSE map[k]]

\* no renderChunk or generateBundle invocation is in flight
Quiet ==
    \A o \in DOMAIN gb :
        /\ gb[o].pc \in {"done", "threw"}
        /\ \A f \in DOMAIN rc[o] : rc[o][f].pc = "done"

CssBuildStartKeepingCache ==
    /\ phase = "new" \/ (phase = "generate" /\ Quiet)
    /\ build < MaxBuilds
    /\ build' = build + 1
    /\ phase' = "cssStarted"
    /\ removedPureCssFiles' = EmptyMap
    /\ emitted' = EmptyBag
    /\ UNCHANGED <<config, outputs, bundle, postVars, rc, gb, moduleCache,
                   postcssConfigCache, postcssLoads, watchFiles, moduleGraph, tf,
                   textVars>>

\* cssPlugin.buildStart; the host starts a build when the one before it,
\* if any, has written its outputs or has been given up
CssBuildStart ==
    /\ phase = "new" \/ (phase = "generate" /\ Quiet)
    /\ build < MaxBuilds
    /\ build' = build + 1
    /\ phase' = "cssStarted"
    /\ moduleCache' = EmptyMap
    /\ removedPureCssFiles' = EmptyMap
    /\ emitted' = EmptyBag
    /\ UNCHANGED <<config, outputs, bundle, postVars, rc, gb, postcssConfigCache,
                   postcssLoads, watchFiles, moduleGraph, tf, textVars>>

\* a buildStart that starts the recorded styles afresh as well
CssPostBuildStartClearingStyles ==
    /\ phase = "cssStarted"
    /\ phase' = "build"
    /\ pureCssChunks' = {}
    /\ outputToExtractedCSSMap' = EmptyMap
    /\ hasEmitted' = FALSE
    /\ styles' = EmptyMap
    /\ UNCHANGED <<config, outputs, build, bundle, emitted,
                   removedPureCssFiles, rc, gb, compileVars, textVars>>

\* cssPostPlugin.buildStart
CssPostBuildStart ==
    /\ phase = "cssStarted"
    /\ phase' = "build"
    /\ pureCssChunks' = {}
    /\ outputToExtractedCSSMap' = EmptyMap
    /\ hasEmitted' = FALSE
    /\ UNCHANGED <<config, outputs, build, bundle, emitted, styles,
                   removedPureCssFiles, rc, gb, compileVars, textVars>>

RecordStyleAlone(id, css) ==
    IF ~InlineRE(id) THEN MapSet(EmptyMap, id, css) ELSE styles

\* if (!inlined) styles.set(id, css)
RecordStyle(id, css) ==
    IF ~InlineRE(id) THEN MapSet(styles, id, css) ELSE styles

\* cssPostPlugin.transform with config.command === 'build'
PostTransformBuild(id, css) ==
    /\ phase = "build"
    /\ IsCSSRequest(id) /\ ~CommonjsProxyRE(id)
    /\ ~(InlineCSSRE(id) /\ HtmlProxyRE(id))
    /\ styles' = RecordStyle(id, css)
    /\ UNCHANGED <<hostVars, pureCssChunks, outputToExtractedCSSMap, hasEmitted,
                   removedPureCssFiles, rc, gb, compileVars, textVars>>

\* The host has built the module graph, every transform of this build has
\* returned: it makes the chunks of every output, naming the files of each
\* output by that output's options, and starts rendering them.
HostGenerate ==
    /\ phase = "build"
    /\ \A t \in DOMAIN tf :
          (tf[t].pc # "idle" /\ tf[t].session = build) => tf[t].pc = "posted"
    /\ phase' = "generate"
    /\ \E cssFile \in [OutputIds -> CssFiles] :
          bundle' = [o \in OutputIds |-> Graph(cssFile[o], outputs[o].format)]
    /\ rc' = [o \in OutputIds |->
                [f \in {bundle'[o][i].fileName : i \in 1..Len(bundle'[o])} |->
                    [pc |-> "ready", css |-> <<>>]]]
    /\ gb' = [o \in OutputIds |-> [pc |-> "ready", css |-> <<>>]]
    /\ UNCHANGED <<config, outputs, build, emitted, postVars, removedPureCssFiles,
                   compileVars, textVars>>

ChunkIndex(b, file) == CHOOSE i \in 1..Len(b) : b[i].fileName = file

\* renderChunk, had it only the branch that gathers the css in the buffer
RenderBranchAlwaysExtract(o) == "extract"

\* which of renderChunk's three branches a chunk with css takes
RenderBranch(o) ==
    IF config.cssCodeSplit
    THEN IF outputs[o].format \in {"es", "cjs"} THEN "asset"
         ELSE IF ~config.ssr THEN "inject" ELSE "none"
    ELSE "extract"

\* renderChunk up to its first await: the chunk's css is gathered, the chunk
\* is registered as pure css, processChunkCSS is called
RenderChunkStart(o, f) ==
    /\ phase = "generate"
    /\ rc[o][f].pc = "ready"
    /\ LET i == ChunkIndex(bundle[o], f)
           chunk == bundle[o][i]
           chunkCSS == ChunkCSS(chunk.modules)
           branch == RenderBranch(o)
           processed == ProcessChunkCSS(chunkCSS, branch = "inject", branch # "extract")
       IN  IF chunkCSS = <<>> \/ branch = "none"
           THEN /\ rc' = [rc EXCEPT ![o][f].pc = "done"]
                /\ pureCssChunks' =
                      IF chunkCSS # <<>> /\ config.cssCodeSplit
                         /\ IsPureCssChunk(chunk.modules)
                      THEN pureCssChunks \cup {chunk.fileName} ELSE pureCssChunks
                /\ UNCHANGED bundle
           ELSE /\ rc' = [rc EXCEPT ![o][f] = [pc |-> "await", css |-> processed]]
                /\ pureCssChunks' =
                      IF config.cssCodeSplit /\ IsPureCssChunk(chunk.modules)
                      THEN pureCssChunks \cup {chunk.fileName} ELSE pureCssChunks
                /\ bundle' = [bundle EXCEPT ![o][i].importedAssets =
                                 @ \cup AssetFilenames(chunkCSS)]
    /\ UNCHANGED <<config, outputs, phase, build, emitted, styles,
                   outputToExtractedCSSMap, hasEmitted, removedPureCssFiles, gb,
                   compileVars, textVars>>

\* this.getFileName(this.emitFile({ name, type: 'asset', source }))
AssetFile(name, source) == [asset |-> name, source |-> source]

EmitFile(o, name, source) ==
    emitted (+) SetToBag({[output |-> o, name |-> name, source |-> source]})

\* the buffer overwritten by the chunk's css
ReplaceExtracted(o, chunkCSS) == MapSet(outputToExtractedCSSMap, o, chunkCSS)

\* outputToExtractedCSSMap.set(opts, (outputToExtractedCSSMap.get(opts) || '') + chunkCSS)
AppendExtracted(o, chunkCSS) ==
    MapSet(outputToExtractedCSSMap, o,
           (IF o \in DOMAIN outputToExtractedCSSMap
            THEN outputToExtractedCSSMap[o] ELSE <<>>)
           \o chunkCSS)

\* renderChunk after `await processChunkCSS(...)`
RenderChunkFinish(o, f) ==
    /\ phase = "generate"
    /\ rc[o][f].pc = "await"
    /\ LET i == ChunkIndex(bundle[o], f)
           chunk == bundle[o][i]
           chunkCSS == rc[o][f].css
           branch == RenderBranch(o)
       IN  CASE branch = "asset" ->
                  /\ emitted' = EmitFile(o, <<chunk.name, ".css">>, chunkCSS)
                  /\ bundle' = [bundle EXCEPT ![o][i].importedCss =
                                   @ \cup {AssetFile(<<chunk.name, ".css">>, chunkCSS)}]
                  /\ UNCHANGED outputToExtractedCSSMap
             [] branch = "inject" ->
                  /\ bundle' = [bundle EXCEPT ![o][i].code =
                                   <<InjectCode(chunkCSS)>> \o @]
                  /\ UNCHANGED <<emitted, outputToExtractedCSSMap>>
             [] OTHER ->
                  /\ outputToExtractedCSSMap' = AppendExtracted(o, chunkCSS)
                  /\ UNCHANGED <<emitted, bundle>>
    /\ rc' = [rc EXCEPT ![o][f].pc = "done"]
    /\ UNCHANGED <<config, outputs, phase, build, styles, pureCssChunks,
                   hasEmitted, removedPureCssFiles, gb, compileVars, textVars>>

RECURSIVE FilterImportsNoMerge(_, _, _, _)
FilterImportsNoMerge(b, i, rest, kept) ==
    IF rest = <<>> THEN [b |-> [b EXCEPT ![i].imports = kept], threw |-> FALSE]
    ELSE LET file == Head(rest)
         IN  IF file \in pureCssChunks
             THEN IF ~HasFile(b, file) THEN [b |-> b, threw |-> TRUE]
                  ELSE FilterImportsNoMerge(b, i, Tail(rest), kept)
             ELSE FilterImportsNoMerge(b, i, Tail(rest), kept \o <<file>>)

RECURSIVE FilterImports(_, _, _, _)
\* chunk.imports.filter(...) for the chunk at position i: `rest` are the
\* imports still to visit, `kept` those kept so far.  Reading importedCss of
\* bundle[file] throws a TypeError when the bundle has no such file.
FilterImports(b, i, rest, kept) ==
    IF rest = <<>> THEN [b |-> [b EXCEPT ![i].imports = kept], threw |-> FALSE]
    ELSE LET file == Head(rest)
         IN  IF file \in pureCssChunks
             THEN IF ~HasFile(b, file) THEN [b |-> b, threw |-> TRUE]
                  ELSE FilterImports(
                          [b EXCEPT ![i].importedCss =
                              @ \cup BundleGet(b, file).importedCss],
                          i, Tail(rest), kept)
             ELSE FilterImports(b, i, Tail(rest), kept \o <<file>>)

RECURSIVE PruneChunks(_, _, _)
\* for (const file in bundle): the imports are filtered and the code stripped,
\* chunk after chunk in the bundle's key order
PruneChunks(b, i, format) ==
    IF i > Len(b) THEN [b |-> b, threw |-> FALSE]
    ELSE LET r == FilterImports(b, i, b[i].imports, <<>>)
         IN  IF r.threw THEN r
             ELSE PruneChunks(
                     [r.b EXCEPT ![i].code =
                         StripEmptyChunkImports(@, format, pureCssChunks)],
                     i + 1, format)

\* pureCssChunks.forEach: removedPureCssFiles.set(fileName, bundle[fileName])
RecordRemoved(b) ==
    [f \in DOMAIN removedPureCssFiles \cup pureCssChunks |->
        IF f \in pureCssChunks THEN BundleGet(b, f) ELSE removedPureCssFiles[f]]

\* pureCssChunks.forEach: delete bundle[fileName]
DeleteRemoved(b) ==
    LET keep(chunk) == chunk.fileName \notin pureCssChunks
    IN  SelectSeq(b, keep)

\* outputToExtractedCSSMap.get(opts), '' standing for undefined as well
ExtractedCss(o) ==
    IF o \in DOMAIN outputToExtractedCSSMap THEN outputToExtractedCSSMap[o] ELSE <<>>

ShouldEmitAlways(o) == ExtractedCss(o) # <<>>

\* extractedCss && !hasEmitted
ShouldEmit(o) == ExtractedCss(o) # <<>> /\ ~hasEmitted

\* generateBundle up to its first await: the pure css chunks are pruned, the
\* emitted flag is tested and set; without minification the file is emitted
\* in the same step
GenerateBundleStart(o) ==
    /\ phase = "generate"
    /\ gb[o].pc = "ready"
    /\ \A f \in DOMAIN rc[o] : rc[o][f].pc = "done"
    /\ IF outputs[o].skip
       THEN /\ gb' = [gb EXCEPT ![o].pc = "done"]
            /\ UNCHANGED <<bundle, removedPureCssFiles, hasEmitted, emitted>>
       ELSE LET pruned == IF pureCssChunks # {}
                          THEN PruneChunks(bundle[o], 1, outputs[o].format)
                          ELSE [b |-> bundle[o], threw |-> FALSE]
            IN  IF pruned.threw
                THEN /\ bundle' = [bundle EXCEPT ![o] = pruned.b]
                     /\ gb' = [gb EXCEPT ![o].pc = "threw"]
                     /\ UNCHANGED <<removedPureCssFiles, hasEmitted, emitted>>
                ELSE /\ bundle' = [bundle EXCEPT ![o] =
                                      IF pureCssChunks # {} THEN DeleteRemoved(pruned.b)
                                      ELSE pruned.b]
                     /\ removedPureCssFiles' =
                           IF pureCssChunks # {} THEN RecordRemoved(pruned.b)
                           ELSE removedPureCssFiles
                     /\ IF ShouldEmit(o)
                        THEN /\ hasEmitted' = TRUE
                             /\ IF config.minify
                                THEN /\ gb' = [gb EXCEPT ![o] =
                                           [pc |-> "minify", css |-> ExtractedCss(o)]]
                                     /\ UNCHANGED emitted
                                ELSE /\ gb' = [gb EXCEPT ![o].pc = "done"]
                                     /\ emitted' = EmitFile(o, <<"style.css">>,
                                                            ExtractedCss(o))
                        ELSE /\ gb' = [gb EXCEPT ![o].pc = "done"]
                             /\ UNCHANGED <<hasEmitted, emitted>>
    /\ UNCHANGED <<config, outputs, phase, build, styles, pureCssChunks,
                   outputToExtractedCSSMap, rc, compileVars, textVars>>

\* generateBundle after `await minifyCSS(extractedCss, config)`
GenerateBundleFinish(o) ==
    /\ phase = "generate"
    /\ gb[o].pc = "minify"
    /\ emitted' = EmitFile(o, <<"style.css">>, MinifyCSS(gb[o].css))
    /\ gb' = [gb EXCEPT ![o].pc = "done"]
    /\ UNCHANGED <<config, outputs, phase, build, bundle, postVars,
                   removedPureCssFiles, rc, compileVars, textVars>>

CssIds == {CssA, CssB}

BuildIdle ==
    /\ config = Config(FALSE, FALSE, FALSE, FALSE)
    /\ outputs = <<Output("es", FALSE)>>
    /\ phase = "off"
    /\ build = 0
    /\ bundle = <<>>
    /\ emitted = EmptyBag
    /\ styles = EmptyMap
    /\ pureCssChunks = {}
    /\ outputToExtractedCSSMap = EmptyMap
    /\ hasEmitted = FALSE
    /\ removedPureCssFiles = EmptyMap
    /\ rc = <<>>
    /\ gb = <<>>

UndefinedValue == [kind |-> "undefined"]
NullValue == [kind |-> "null"]

CompileIdle ==
    /\ moduleCache = EmptyMap
    /\ postcssConfigCache = UndefinedValue
    /\ postcssLoads = 0
    /\ watchFiles = {}
    /\ moduleGraph = EmptyMap
    /\ tf = <<>>

HoistIdle ==
    /\ hoistIn = <<>>
    /\ hoistOut = <<>>
    /\ hoistPc = "off"

UrlIdle ==
    /\ urlCss = <<>>
    /\ remaining = <<>>
    /\ rewritten = <<>>
    /\ replacerCalls = <<>>
    /\ urlPc = "off"

ResolveIdle ==
    /\ resolveIn = <<>>
    /\ resolveOut = <<>>
    /\ resolvePc = "off"

\* cssPlugin(config) and cssPostPlugin(config) have been called
Init ==
    /\ config \in Configs
    /\ outputs \in OutputLists
    /\ phase = "new"
    /\ build = 0
    /\ bundle = [o \in OutputIds |-> <<>>]
    /\ emitted = EmptyBag
    /\ styles = EmptyMap
    /\ pureCssChunks = {}
    /\ outputToExtractedCSSMap = EmptyMap
    /\ hasEmitted = FALSE
    /\ removedPureCssFiles = EmptyMap
    /\ rc = [o \in OutputIds |-> <<>>]
    /\ gb = [o \in OutputIds |-> [pc |-> "done", css |-> <<>>]]
    /\ CompileIdle
    /\ HoistIdle
    /\ UrlIdle
    /\ ResolveIdle

Next ==
    \/ CssBuildStart
    \/ CssPostBuildStart
    \/ \E id \in CssIds, css \in PostTexts : PostTransformBuild(id, css)
    \/ HostGenerate
    \/ \E o \in OutputIds : \E f \in DOMAIN rc[o] : RenderChunkStart(o, f)
    \/ \E o \in OutputIds : \E f \in DOMAIN rc[o] : RenderChunkFinish(o, f)
    \/ \E o \in OutputIds : GenerateBundleStart(o)
    \/ \E o \in OutputIds : GenerateBundleFinish(o)

Spec == Init /\ [][Next]_vars

----------------------------------------------------------------------------
(* cssPlugin.transform and compileCSS *)

\* a rule whose value holds a url(...), or an image-set(...)
UrlRule(n) == Node("url", n, <<>>)
ImageSetRule(n) == Node("image-set", n, <<>>)

\* cssUrlRE.test(code) || cssImageSetRE.test(code)
HasUrl(code) == \E i \in 1..Len(code) : code[i].name \in {"url", "image-set"}

ModuleCss == Id("c", TRUE, "css", {})
CssDirect == Id("a", FALSE, "css", {"direct"})
CssInline == Id("a", FALSE, "css", {"inline"})
Scss == Id("d", FALSE, "scss", {})

\* the ids and the sources handed to cssPlugin.transform
CompileIds == {CssA, ModuleCss, Scss, JsMain, CssDirect, CssInline}
CompileTexts ==
    { <<Rule(1)>>, <<AtImport(1), Rule(1)>>, <<UrlRule(1)>>, <<ImageSetRule(1)>> }
CompileInputs ==
    {<<CssA, raw>> : raw \in CompileTexts}
    \cup {<<ModuleCss, <<Rule(1)>> >>, <<Scss, <<Rule(1)>> >>}
    \cup {<<JsMain, <<Rule(1)>> >>}
    \cup {<<CssDirect, <<Rule(1)>> >>, <<CssInline, <<Rule(1)>> >>}

\* id.match(cssLangRE)?.[1]
Lang(id) == id.ext

PreprocessLangs == {"less", "sass", "scss", "styl", "stylus"}
IsPreProcessorNever(lang) == FALSE

IsPreProcessor(lang) == lang \in PreprocessLangs

\* compileCSS: isModule
IsModule(id) == config.cssModules /\ CssModuleRE(id)

\* the value resolvePostcssConfig computes
InlineCfg == [kind |-> "config", plugins |-> <<"user">>]
FileCfg == [kind |-> "config", plugins |-> <<"user">>]

\* a value is truthy
Truthy(v) == v.kind \notin {"undefined", "null"}

NeedsNoProcessingWithConfig(id, code, postcssConfig) ==
    /\ Lang(id) = "css"
    /\ Truthy(postcssConfig)
    /\ ~IsModule(id)
    /\ ~IncludesAtImport(code)
    /\ ~HasUrl(code)

\* compileCSS: "1. plain css that needs no processing"
NeedsNoProcessing(id, code, postcssConfig) ==
    /\ Lang(id) = "css"
    /\ ~Truthy(postcssConfig)
    /\ ~IsModule(id)
    /\ ~IncludesAtImport(code)
    /\ ~HasUrl(code)

\* source maps: the preprocessor's, the additional data's, the toolchain's
SourceMap(of) == [kind |-> "map", of |-> of]

\* combineSourcemapsIfExists(filename, map1, map2)
CombineSourcemapsIfExists(map1, map2) ==
    IF Truthy(map1) /\ Truthy(map2) THEN SourceMap(<<map1, map2>>) ELSE map1

\* What a preprocessor adapter returns: errors, or code with its maps and
\* deps; "self" among the deps is the compiled file itself.
PreprocessResult(errors, code, map, additionalMap, deps) ==
    [errors |-> errors, code |-> code, map |-> map,
     additionalMap |-> additionalMap, deps |-> deps]

PreprocessResults ==
    { PreprocessResult(TRUE, <<>>, UndefinedValue, UndefinedValue, {}),
      PreprocessResult(FALSE, <<Rule(2)>>, UndefinedValue, UndefinedValue, {}),
      PreprocessResult(FALSE, <<AtImport(2), Rule(2)>>, SourceMap(<<"sass">>),
                       UndefinedValue, {"self", "partial"}) }

\* the same, and the results of an adapter whose additional data is computed
AdapterResults ==
    PreprocessResults
    \cup { PreprocessResult(FALSE, <<Rule(3)>>, UndefinedValue,
                            SourceMap(<<"additionalData">>), {}),
           PreprocessResult(FALSE, <<Rule(3), Rule(2)>>, SourceMap(<<"sass">>),
                            SourceMap(<<"additionalData">>), {}) }

\* the chain without the url rewrite plugin
PostcssPluginsWithoutRewrite(id, needInlineImport, postcssConfig) ==
    (IF IsModule(id) THEN <<"postcss-modules">> ELSE <<>>)
    \o (IF needInlineImport THEN <<"postcss-import">> ELSE <<>>)
    \o (IF Truthy(postcssConfig) THEN postcssConfig.plugins ELSE <<>>)

\* compileCSS: the plugins handed to postcss, in order
PostcssPlugins(id, needInlineImport, postcssConfig) ==
    (IF IsModule(id) THEN <<"postcss-modules">> ELSE <<>>)
    \o (IF needInlineImport THEN <<"postcss-import">> ELSE <<>>)
    \o (IF Truthy(postcssConfig) THEN postcssConfig.plugins ELSE <<>>)
    \o <<"vite-url-rewrite">>

\* What the toolchain does to one node: postcss-import inlines the file a
\* local '@import' (n = 1) names and leaves an external one (n = 2);
\* postcss-modules gives every rule a scoped class name; the url rewrite
\* replaces the targets of url() and image-set().
PostcssNode(node, plugins) ==
    CASE node.name = "import" /\ node.n = 1 /\ "postcss-import" \in Range(plugins) ->
            [node EXCEPT !.name = "inlined"]
      [] node.name = "rule" /\ "postcss-modules" \in Range(plugins) ->
            [node EXCEPT !.name = "scoped"]
      [] node.name \in {"url", "image-set"} ->
            [node EXCEPT !.name = "rewritten"]
      [] OTHER -> node

\* postcss(postcssPlugins).process(code, ...): css, the modules handed to
\* getJSON, and the files of the dependency messages
PostcssProcess(code, plugins) ==
    [css |-> [i \in 1..Len(code) |-> PostcssNode(code[i], plugins)],
     modules |->
        IF "postcss-modules" \in Range(plugins)
        THEN [kind |-> "modules",
              names |-> {code[i].n : i \in {k \in 1..Len(code) : code[k].name = "rule"}}]
        ELSE UndefinedValue,
     deps |->
        IF "postcss-import" \in Range(plugins)
        THEN {"imported" : i \in {k \in 1..Len(code) :
                                    code[k].name = "import" /\ code[k].n = 1}}
        ELSE {}]

Tasks == 1..MaxTasks

\* The host calls the buildStart hooks of the two plugins one right after
\* the other: no continuation of a transform runs between them.
BetweenBuildStarts == phase = "cssStarted"

IdleTask == [pc |-> "idle"]

\* compileCSS, step 3, up to `await postcss(postcssPlugins).process(...)`: the
\* chain is built; with an empty chain the code is returned as it is
BuildChain(task) ==
    LET postcssPlugins == PostcssPlugins(task.id, IncludesAtImport(task.raw),
                                         task.postcssConfig)
    IN  IF postcssPlugins = <<>>
        THEN [task EXCEPT !.pc = "compiled",
                          !.postcssPlugins = postcssPlugins,
                          !.result = [code |-> task.code,
                                      map |-> task.preprocessorMap,
                                      modules |-> UndefinedValue,
                                      deps |-> UndefinedValue]]
        ELSE [task EXCEPT !.pc = "postcss", !.ranPost = TRUE,
                          !.postcssPlugins = postcssPlugins]

\* resolvePostcssConfig up to its await, inside compileCSS inside transform
TransformStart(t, id, raw) ==
    /\ phase = "build"
    /\ tf[t].pc = "idle"
    /\ \A u \in 1..(t - 1) : tf[u].pc # "idle"
    /\ LET task == [pc |-> "resolved", id |-> id, raw |-> raw, code |-> raw,
                    postcssConfig |-> UndefinedValue, ranPre |-> FALSE,
                    ranPost |-> FALSE, result |-> UndefinedValue,
                    preprocessorMap |-> UndefinedValue, deps |-> {},
                    errors |-> FALSE, ssr |-> FALSE, out |-> UndefinedValue,
                    session |-> build, preprocessResult |-> UndefinedValue,
                    postcssPlugins |-> <<>>]
       IN  IF ~IsCSSRequest(id) \/ CommonjsProxyRE(id)
           THEN /\ tf' = [tf EXCEPT ![t] = [task EXCEPT !.pc = "done"]]
                /\ UNCHANGED <<postcssConfigCache, postcssLoads>>
           ELSE IF postcssConfigCache # UndefinedValue
           THEN /\ tf' = [tf EXCEPT ![t] =
                            [task EXCEPT !.postcssConfig = postcssConfigCache]]
                /\ UNCHANGED <<postcssConfigCache, postcssLoads>>
           ELSE IF config.postcss = "inline"
           THEN /\ tf' = [tf EXCEPT ![t] = [task EXCEPT !.postcssConfig = InlineCfg]]
                /\ postcssConfigCache' = InlineCfg
                /\ UNCHANGED postcssLoads
           ELSE /\ tf' = [tf EXCEPT ![t] = [task EXCEPT !.pc = "loading"]]
                /\ postcssLoads' = postcssLoads + 1
                /\ UNCHANGED postcssConfigCache
    /\ UNCHANGED <<buildVars, moduleCache, watchFiles, moduleGraph, textVars>>

\* resolvePostcssConfig after `await postcssrc({}, searchPath)`
PostcssConfigLoaded(t) ==
    /\ tf[t].pc = "loading"
    /\ ~BetweenBuildStarts
    /\ IF config.postcss = "error"
       THEN /\ tf' = [tf EXCEPT ![t].pc = "threw"]
            /\ UNCHANGED postcssConfigCache
       ELSE LET result == IF config.postcss = "found" THEN FileCfg ELSE NullValue
            IN  /\ postcssConfigCache' = result
                /\ tf' = [tf EXCEPT ![t].pc = "resolved", ![t].postcssConfig = result]
    /\ UNCHANGED <<buildVars, moduleCache, postcssLoads, watchFiles, moduleGraph,
                   textVars>>

\* compileCSS from `await resolvePostcssConfig(config)` to its next await
CompileResume(t) ==
    /\ tf[t].pc = "resolved"
    /\ ~BetweenBuildStarts
    /\ LET task == tf[t]
       IN  IF NeedsNoProcessing(task.id, task.raw, task.postcssConfig)
           THEN tf' = [tf EXCEPT ![t].pc = "compiled",
                                 ![t].result = [code |-> task.raw, map |-> NullValue,
                                                modules |-> UndefinedValue,
                                                deps |-> UndefinedValue]]
           ELSE IF IsPreProcessor(Lang(task.id))
           THEN tf' = [tf EXCEPT ![t].pc = "preprocess", ![t].ranPre = TRUE]
           ELSE tf' = [tf EXCEPT ![t] = BuildChain(task)]
    /\ UNCHANGED <<buildVars, moduleCache, postcssConfigCache, postcssLoads,
                   watchFiles, moduleGraph, textVars>>

PreprocessDoneIgnoringErrors(t, r) ==
    /\ tf[t].pc = "preprocess"
    /\ ~BetweenBuildStarts
    /\ tf' = [tf EXCEPT ![t] =
                  BuildChain([tf[t] EXCEPT
                                 !.errors = r.errors,
                                 !.code = r.code,
                                 !.preprocessResult = r,
                                 !.preprocessorMap =
                                     CombineSourcemapsIfExists(r.map, r.additionalMap),
                                 !.deps = r.deps \ {"self"}])]
    /\ UNCHANGED <<buildVars, moduleCache, postcssConfigCache, postcssLoads,
                   watchFiles, moduleGraph, textVars>>

\* compileCSS after `await preProcessor(code, config.root, opts, atImportResolvers)`;
\* the task keeps whether the adapter returned errors
PreprocessDone(t, r) ==
    /\ tf[t].pc = "preprocess"
    /\ ~BetweenBuildStarts
    /\ IF r.errors
       THEN tf' = [tf EXCEPT ![t].pc = "threw", ![t].errors = TRUE]
       ELSE tf' = [tf EXCEPT ![t] =
                     BuildChain([tf[t] EXCEPT
                                    !.code = r.code,
                                    !.preprocessResult = r,
                                    !.preprocessorMap =
                                        CombineSourcemapsIfExists(r.map,
                                                                  r.additionalMap),
                                    !.deps = r.deps \ {"self"}])]
    /\ UNCHANGED <<buildVars, moduleCache, postcssConfigCache, postcssLoads,
                   watchFiles, moduleGraph, textVars>>

\* compileCSS after `await postcss(postcssPlugins).process(code, ...)`
PostcssDone(t) ==
    /\ tf[t].pc = "postcss"
    /\ ~BetweenBuildStarts
    /\ LET task == tf[t]
           out == PostcssProcess(task.code, task.postcssPlugins)
       IN  tf' = [tf EXCEPT ![t].pc = "compiled",
                            ![t].result =
                                [code |-> out.css,
                                 map |-> CombineSourcemapsIfExists(
                                            SourceMap(<<"postcss">>),
                                            task.preprocessorMap),
                                 modules |-> out.modules,
                                 deps |-> [kind |-> "set",
                                           files |-> task.deps \cup out.deps]]]
    /\ UNCHANGED <<buildVars, moduleCache, postcssConfigCache, postcssLoads,
                   watchFiles, moduleGraph, textVars>>

\* a module of the graph: its dependency edges and its self-accepting flag
ModuleNode(importedModules, isSelfAccepting) ==
    [importedModules |-> importedModules, isSelfAccepting |-> isSelfAccepting]

\* moduleGraph.updateModuleInfo(mod, depModules, new Set(), isSelfAccepting):
\* the module's edges are replaced by depModules
UpdateModuleInfo(graph, id, depModules, isSelfAccepting) ==
    [graph EXCEPT ![id] = ModuleNode(depModules, isSelfAccepting)]

\* transform after `await compileCSS(...)`.  Every dependency of the model
\* is a css file, for which createFileOnlyEntry is called: the loop over the
\* deps does not suspend.
TransformFinish(t) ==
    /\ tf[t].pc = "compiled"
    /\ ~BetweenBuildStarts
    /\ LET r == tf[t].result
           id == tf[t].id
           thisModule == config.command = "serve" /\ id \in DOMAIN moduleGraph
           isSelfAccepting == ~Truthy(r.modules) /\ ~InlineRE(id)
       IN  /\ moduleCache' = IF Truthy(r.modules)
                             THEN MapSet(moduleCache, id, r.modules)
                             ELSE moduleCache
           /\ watchFiles' =
                 IF /\ Truthy(r.deps)
                    /\ \/ config.command = "build" /\ config.watch
                       \/ thisModule
                 THEN watchFiles \cup r.deps.files ELSE watchFiles
           /\ moduleGraph' =
                 IF ~thisModule THEN moduleGraph
                 ELSE IF Truthy(r.deps)
                 THEN UpdateModuleInfo(moduleGraph, id, r.deps.files, isSelfAccepting)
                 ELSE [moduleGraph EXCEPT ![id].isSelfAccepting = isSelfAccepting]
    /\ tf' = [tf EXCEPT ![t].pc = "done"]
    /\ UNCHANGED <<buildVars, postcssConfigCache, postcssLoads, textVars>>

\* isDirectCSSRequest(request)
IsDirectCSSRequest(id) == IsCSSRequest(id) /\ "direct" \in id.query

\* cssModulesCache.get(config).get(id)
ModulesOf(id) == IF id \in DOMAIN moduleCache THEN moduleCache[id] ELSE UndefinedValue

\* Generated JavaScript is a sequence of statements.
\* dataToEsm(modules, { namedExports: true, preferConst: true })
DataToEsm(modules) == <<[stmt |-> "export modules", names |-> modules.names]>>

\* `export default ${JSON.stringify(css)}`
ExportDefault(css) == <<[stmt |-> "export default", value |-> css]>>

\* getCodeWithSourcemap('css', css, sourcemap)
GetCodeWithSourcemap(css) == [css |-> css, sourcemap |-> TRUE]

\* a runtime module that accepts its own updates whatever it exports
RuntimeCodeAccepting(id, css, modules) ==
    << [stmt |-> "import updateStyle, removeStyle"],
       [stmt |-> "const __vite__id", value |-> id],
       [stmt |-> "const __vite__css", value |-> GetCodeWithSourcemap(css)],
       [stmt |-> "updateStyle(__vite__id, __vite__css)"],
       [stmt |-> "import.meta.hot.accept()"] >>
    \o (IF Truthy(modules) THEN DataToEsm(modules)
        ELSE << [stmt |-> "export default __vite__css"] >>)
    \o << [stmt |-> "import.meta.hot.prune(removeStyle(__vite__id))"] >>

\* the module that injects the style at run time
RuntimeCode(id, css, modules) ==
    << [stmt |-> "import updateStyle, removeStyle"],
       [stmt |-> "const __vite__id", value |-> id],
       [stmt |-> "const __vite__css", value |-> GetCodeWithSourcemap(css)],
       [stmt |-> "updateStyle(__vite__id, __vite__css)"] >>
    \o (IF Truthy(modules) THEN DataToEsm(modules)
        ELSE << [stmt |-> "import.meta.hot.accept()"],
                [stmt |-> "export default __vite__css"] >>)
    \o << [stmt |-> "import.meta.hot.prune(removeStyle(__vite__id))"] >>

PostTransformServeInlineLast(css, id, ssr) ==
    LET modules == ModulesOf(id)
    IN  IF IsDirectCSSRequest(id) THEN css
        ELSE IF ssr
        THEN IF Truthy(modules) THEN DataToEsm(modules) ELSE ExportDefault(css)
        ELSE RuntimeCode(id, css, modules)

\* cssPostPlugin.transform with config.command === 'serve': what it returns
PostTransformServe(css, id, ssr) ==
    LET modules == ModulesOf(id)
    IN  IF IsDirectCSSRequest(id) THEN css
        ELSE IF ssr
        THEN IF Truthy(modules) THEN DataToEsm(modules) ELSE ExportDefault(css)
        ELSE IF InlineRE(id) THEN ExportDefault(css)
        ELSE RuntimeCode(id, css, modules)

\* cssPostPlugin.transform with config.command === 'build': the code returned
PostTransformBuildCode(css, id) ==
    LET modules == ModulesOf(id)
    IN  IF Truthy(modules) THEN DataToEsm(modules)
        ELSE IF UsedRE(id)
        THEN ExportDefault(IF InlineRE(id) THEN MinifyCSS(css) ELSE css)
        ELSE ExportDefault(<<>>)

\* cssPostPlugin.transform(css, id, options), called by the host with the
\* code cssPlugin.transform returned; nothing shared is touched after its
\* awaits, so it is one step.  The task keeps options.ssr of a dev request.
PostTransform(t, ssr) ==
    /\ tf[t].pc = "done"
    /\ ~BetweenBuildStarts
    /\ LET id == tf[t].id
           css == tf[t].result.code
       IN  IF ~IsCSSRequest(id) \/ CommonjsProxyRE(id)
           THEN /\ tf' = [tf EXCEPT ![t].pc = "posted"]
                /\ UNCHANGED styles
           ELSE IF config.command = "serve"
           THEN /\ tf' = [tf EXCEPT ![t].pc = "posted", ![t].ssr = ssr,
                                    ![t].out = PostTransformServe(css, id, ssr)]
                /\ UNCHANGED styles
           ELSE /\ tf' = [tf EXCEPT ![t].pc = "posted",
                                    ![t].out = PostTransformBuildCode(css, id)]
                /\ styles' = RecordStyle(id, css)
    /\ UNCHANGED <<hostVars, pureCssChunks, outputToExtractedCSSMap, hasEmitted,
                   removedPureCssFiles, rc, gb, moduleCache, postcssConfigCache,
                   postcssLoads, watchFiles, moduleGraph, textVars>>

CompileConfigs ==
    { [Config(TRUE, FALSE, FALSE, FALSE) EXCEPT !.postcss = p]
        : p \in {"inline", "none", "error"} }
    \cup { [Config(TRUE, FALSE, FALSE, FALSE) EXCEPT !.postcss = "found",
                                                     !.watch = TRUE],
           [Config(TRUE, FALSE, FALSE, FALSE) EXCEPT !.cssModules = FALSE],
           [Config(TRUE, FALSE, FALSE, FALSE) EXCEPT !.command = "serve"] }

\* the modules the dev server's graph holds when the first transform is called
ServedModules == {CssA, ModuleCss, CssInline}

\* cssPlugin(config) has been called; MaxTasks transform calls are to come
InitCompile ==
    /\ config \in CompileConfigs
    /\ outputs = <<Output("es", FALSE)>>
    /\ phase = "new"
    /\ build = 0
    /\ bundle = <<>>
    /\ emitted = EmptyBag
    /\ styles = EmptyMap
    /\ pureCssChunks = {}
    /\ outputToExtractedCSSMap = EmptyMap
    /\ hasEmitted = FALSE
    /\ removedPureCssFiles = EmptyMap
    /\ rc = <<>>
    /\ gb = <<>>
    /\ moduleCache = EmptyMap
    /\ postcssConfigCache = UndefinedValue
    /\ postcssLoads = 0
    /\ watchFiles = {}
    /\ moduleGraph = IF config.command = "serve"
                     THEN [id \in ServedModules |-> ModuleNode({}, FALSE)]
                     ELSE EmptyMap
    /\ tf = [t \in Tasks |-> IdleTask]
    /\ HoistIdle
    /\ UrlIdle
    /\ ResolveIdle

NextCompile ==
    \/ CssBuildStart
    \/ CssPostBuildStart
    \/ \E t \in Tasks, in \in CompileInputs : TransformStart(t, in[1], in[2])
    \/ \E t \in Tasks : PostcssConfigLoaded(t)
    \/ \E t \in Tasks : CompileResume(t)
    \/ \E t \in Tasks, r \in PreprocessResults : PreprocessDone(t, r)
    \/ \E t \in Tasks : PostcssDone(t)
    \/ \E t \in Tasks : TransformFinish(t)
    \/ \E t \in Tasks, ssr \in BOOLEAN : PostTransform(t, ssr)

SpecCompile == InitCompile /\ [][NextCompile]_vars

\* the stylesheets of a preprocessed dialect, with and without an '@import'
AdapterInputs ==
    {<<id, raw>> : id \in {Scss, Id("e", FALSE, "less", {})},
                   raw \in {<<Rule(1)>>, <<AtImport(1), Rule(1)>>}}

\* one transform call of a preprocessed stylesheet, over the results of its
\* adapter
NextAdapter ==
    \/ CssBuildStart
    \/ CssPostBuildStart
    \/ \E in \in AdapterInputs : TransformStart(1, in[1], in[2])
    \/ PostcssConfigLoaded(1)
    \/ CompileResume(1)
    \/ \E r \in AdapterResults : PreprocessDone(1, r)
    \/ PostcssDone(1)
    \/ TransformFinish(1)
    \/ \E ssr \in BOOLEAN : PostTransform(1, ssr)

SpecAdapter == InitCompile /\ [][NextAdapter]_vars

\* stylesheets imported for their css string: ?used marks a default import
\* whose value is read, ?inline asks for the string without injection
CssUsed == Id("a", FALSE, "css", {"used"})
CssInlineUsed == Id("a", FALSE, "css", {"inline", "used"})

ExportInputs ==
    {<<id, raw>> : id \in {CssA, CssUsed, CssInline, CssInlineUsed, ModuleCss},
                   raw \in {<<Rule(1)>>, <<AtImport(1), Rule(1)>>, <<UrlRule(1)>>}}

\* one transform call of a stylesheet whose css string may be exported
NextExport ==
    \/ CssBuildStart
    \/ CssPostBuildStart
    \/ \E in \in ExportInputs : TransformStart(1, in[1], in[2])
    \/ PostcssConfigLoaded(1)
    \/ CompileResume(1)
    \/ PostcssDone(1)
    \/ TransformFinish(1)
    \/ \E ssr \in BOOLEAN : PostTransform(1, ssr)

SpecExport == InitCompile /\ [][NextExport]_vars

----------------------------------------------------------------------------
(* The preprocessor adapters: scss, sass, less, styl and getSource *)

MaxImporters == 2

\* the separator getSource puts between the additional data and the source
LineBreak == Node("linebreak", 0, <<>>)

\* options.additionalData: a string that is prepended as it stands, or a
\* function of (source, filename) whose result is a string or an object
\* { content, map? }
StaticData(text) == [kind |-> "string", text |-> text]
ComputedData(prepend, as, map) ==
    [kind |-> "function", prepend |-> prepend, as |-> as, map |-> map]

\* await additionalData(source, filename)
AdditionalDataCall(additionalData, source, filename) ==
    IF additionalData.as = "string"
    THEN [kind |-> "string", text |-> additionalData.prepend \o source]
    ELSE [kind |-> "object", content |-> additionalData.prepend \o source,
          map |-> additionalData.map]

\* ms.generateMap({ hires: true }) with map.file and map.sources set
GenerateMap(filename) == SourceMap(<<"MagicString", filename>>)

\* !additionalData
NoAdditionalData(additionalData) ==
    \/ ~Truthy(additionalData)
    \/ (additionalData.kind = "string" /\ additionalData.text = <<>>)

\* a getSource that makes a map of the prepended segment for computed data too
GetSourceMapForComputed(source, filename, additionalData, sep) ==
    IF NoAdditionalData(additionalData)
    THEN [content |-> source, map |-> UndefinedValue]
    ELSE IF additionalData.kind = "function"
    THEN LET newContent == AdditionalDataCall(additionalData, source, filename)
         IN  [content |-> IF newContent.kind = "string" THEN newContent.text
                          ELSE newContent.content,
              map |-> GenerateMap(filename)]
    ELSE [content |-> additionalData.text \o sep \o source,
          map |-> GenerateMap(filename)]

\* getSource(source, filename, additionalData, sep)
GetSource(source, filename, additionalData, sep) ==
    IF NoAdditionalData(additionalData)
    THEN [content |-> source, map |-> UndefinedValue]
    ELSE IF additionalData.kind = "function"
    THEN LET newContent == AdditionalDataCall(additionalData, source, filename)
         IN  IF newContent.kind = "string"
             THEN [content |-> newContent.text, map |-> UndefinedValue]
             ELSE [content |-> newContent.content, map |-> newContent.map]
    ELSE [content |-> additionalData.text \o sep \o source,
          map |-> GenerateMap(filename)]

\* an importer or plugin handed to a dialect's compiler: the adapter's own,
\* or the n-th of the user's
Hook(name, n) == [hook |-> name, n |-> n]

\* an importer list with the user's importers in front
ScssImporterUserFirst(options) ==
    IF ~Truthy(options.importer) THEN <<Hook("internalImporter", 0)>>
    ELSE IF options.importer.kind = "array"
    THEN options.importer.items \o <<Hook("internalImporter", 0)>>
    ELSE <<options.importer.item, Hook("internalImporter", 0)>>

\* const importer = [internalImporter]; if (options.importer) { push ... }
ScssImporter(options) ==
    IF ~Truthy(options.importer) THEN <<Hook("internalImporter", 0)>>
    ELSE IF options.importer.kind = "array"
    THEN <<Hook("internalImporter", 0)>> \o options.importer.items
    ELSE <<Hook("internalImporter", 0), options.importer.item>>

\* plugins: [viteResolverPlugin, ...(options.plugins || [])]
LessPlugins(options) ==
    <<Hook("viteResolverPlugin", 0)>>
        \o (IF Truthy(options.plugins) THEN options.plugins.items ELSE <<>>)

\* the body of scss up to render(finalOptions, ...)
ScssRender(call, indentedSyntax) ==
    LET options == [call.options EXCEPT !.indentedSyntax = indentedSyntax]
        got == GetSource(call.source, options.filename, options.additionalData, <<>>)
    IN  [compiler |-> "sass", content |-> got.content,
         options |-> [options EXCEPT !.importer =
                          [kind |-> "array", items |-> ScssImporter(options)]],
         additionalMap |-> got.map]

\* scss(source, root, options, resolvers) up to the await of render
ScssCall ==
    /\ resolvePc = "call"
    /\ resolveIn.lang = "scss"
    /\ resolveOut' = ScssRender(resolveIn, FALSE)
    /\ resolvePc' = "render"
    /\ UNCHANGED <<resolveIn, buildVars, compileVars, hoistVars, urlVars>>

\* sass(source, root, options, aliasResolver): scss with indentedSyntax
SassCall ==
    /\ resolvePc = "call"
    /\ resolveIn.lang = "sass"
    /\ resolveOut' = ScssRender(resolveIn, TRUE)
    /\ resolvePc' = "render"
    /\ UNCHANGED <<resolveIn, buildVars, compileVars, hoistVars, urlVars>>

\* less(source, root, options, resolvers) up to the await of nodeLess.render
LessCall ==
    /\ resolvePc = "call"
    /\ resolveIn.lang = "less"
    /\ LET options == resolveIn.options
           got == GetSource(resolveIn.source, options.filename,
                            options.additionalData, <<>>)
       IN  resolveOut' =
               [compiler |-> "less", content |-> got.content,
                options |-> [options EXCEPT !.plugins =
                                 [kind |-> "array", items |-> LessPlugins(options)]],
                additionalMap |-> got.map]
    /\ resolvePc' = "render"
    /\ UNCHANGED <<resolveIn, buildVars, compileVars, hoistVars, urlVars>>

\* styl(source, root, options) up to ref.render(): the options go to
\* nodeStylus as they came
StylCall ==
    /\ resolvePc = "call"
    /\ resolveIn.lang \in {"styl", "stylus"}
    /\ LET options == resolveIn.options
           got == GetSource(resolveIn.source, options.filename,
                            options.additionalData, <<LineBreak>>)
       IN  resolveOut' =
               [compiler |-> "stylus", content |-> got.content,
                options |-> options, additionalMap |-> got.map]
    /\ resolvePc' = "render"
    /\ UNCHANGED <<resolveIn, buildVars, compileVars, hoistVars, urlVars>>

\* what the dialect's compiler can answer: an error, or css with a map; only
\* Sass can answer without a map (result.map ? JSON.parse(...) : undefined)
RenderOutcomes(compiler) ==
    {"error", "map"} \cup (IF compiler = "sass" THEN {"nomap"} ELSE {})

\* the compiler has answered and the adapter returns
\* { code, map, additionalMap, errors, deps } or { code: '', errors: [e], deps: [] }
AdapterReturn ==
    /\ resolvePc = "render"
    /\ \E outcome \in RenderOutcomes(resolveOut.compiler) :
           resolveIn' =
               [resolveIn EXCEPT !.result =
                   IF outcome = "error"
                   THEN PreprocessResult(TRUE, <<>>, UndefinedValue, UndefinedValue, {})
                   ELSE PreprocessResult(FALSE, resolveOut.content,
                            IF outcome = "map" THEN SourceMap(<<resolveOut.compiler>>)
                            ELSE UndefinedValue,
                            resolveOut.additionalMap, {})]
    /\ resolvePc' = "returned"
    /\ UNCHANGED <<resolveOut, buildVars, compileVars, hoistVars, urlVars>>

\* compileCSS after the await of the adapter: throw the first error, or
\* compose the two maps
AdapterResultTaken ==
    /\ resolvePc = "returned"
    /\ IF resolveIn.result.errors
       THEN /\ resolvePc' = "thrown"
            /\ UNCHANGED resolveIn
       ELSE /\ resolvePc' = "composed"
            /\ resolveIn' = [resolveIn EXCEPT !.preprocessorMap =
                   CombineSourcemapsIfExists(resolveIn.result.map,
                                             resolveIn.result.additionalMap)]
    /\ UNCHANGED <<resolveOut, buildVars, compileVars, hoistVars, urlVars>>

\* options.importer as the user can give it: none, one function, or an array
UserImporters ==
    {UndefinedValue, [kind |-> "function", item |-> Hook("userImporter", 1)]}
        \cup {[kind |-> "array", items |-> [k \in 1..n |-> Hook("userImporter", k)]] :
                 n \in 0..MaxImporters}

UserPlugins == {UndefinedValue, [kind |-> "array", items |-> <<Hook("userPlugin", 1)>>]}

UserAdditionalData ==
    {UndefinedValue, StaticData(<<>>), StaticData(<<Rule(3)>>),
     ComputedData(<<Rule(3)>>, "string", UndefinedValue),
     ComputedData(<<Rule(3)>>, "object", UndefinedValue),
     ComputedData(<<Rule(3)>>, "object", SourceMap(<<"user">>))}

\* compileCSS is about to call preProcessors[lang](code, config.root, opts,
\* atImportResolvers) with opts.filename = cleanUrl(id)
InitPreprocess ==
    /\ BuildIdle
    /\ CompileIdle
    /\ HoistIdle
    /\ UrlIdle
    /\ \E lang \in PreprocessLangs, importer \in UserImporters,
          plugins \in UserPlugins, additionalData \in UserAdditionalData :
           resolveIn = [lang |-> lang, source |-> <<Rule(1)>>,
                        options |-> [filename |-> Id("d", FALSE, lang, {}),
                                     importer |-> importer, plugins |-> plugins,
                                     additionalData |-> additionalData,
                                     indentedSyntax |-> FALSE],
                        result |-> UndefinedValue,
                        preprocessorMap |-> UndefinedValue]
    /\ resolveOut = UndefinedValue
    /\ resolvePc = "call"

NextPreprocess ==
    \/ ScssCall
    \/ SassCall
    \/ LessCall
    \/ StylCall
    \/ AdapterReturn
    \/ AdapterResultTaken

SpecPreprocess == InitPreprocess /\ [][NextPreprocess]_vars

----------------------------------------------------------------------------
(* Build sessions: both plugins under the host, from the transforms of a   *)
(* build to its outputs, with rebuilds after a build that ended or failed  *)

\* A transform of the running build has thrown: the host gives the build
\* up, the transforms still in flight go on, and a rebuild may start.
HostAbort ==
    /\ phase = "build"
    /\ \E t \in Tasks : tf[t].pc = "threw" /\ tf[t].session = build
    /\ phase' = "new"
    /\ UNCHANGED <<config, outputs, build, bundle, emitted, postVars,
                   removedPureCssFiles, rc, gb, compileVars, textVars>>

SessionConfigs ==
    {Config(TRUE, FALSE, FALSE, FALSE), Config(FALSE, TRUE, FALSE, FALSE)}

SessionInputs ==
    {<<CssA, <<Rule(1)>> >>, <<ModuleCss, <<Rule(1)>> >>, <<Scss, <<Rule(1)>> >>}

\* cssPlugin(config) and cssPostPlugin(config) have been called
InitSession ==
    /\ config \in SessionConfigs
    /\ outputs = <<Output("es", FALSE)>>
    /\ phase = "new"
    /\ build = 0
    /\ bundle = [o \in OutputIds |-> <<>>]
    /\ emitted = EmptyBag
    /\ styles = EmptyMap
    /\ pureCssChunks = {}
    /\ outputToExtractedCSSMap = EmptyMap
    /\ hasEmitted = FALSE
    /\ removedPureCssFiles = EmptyMap
    /\ rc = [o \in OutputIds |-> <<>>]
    /\ gb = [o \in OutputIds |-> [pc |-> "done", css |-> <<>>]]
    /\ moduleCache = EmptyMap
    /\ postcssConfigCache = UndefinedValue
    /\ postcssLoads = 0
    /\ watchFiles = {}
    /\ moduleGraph = EmptyMap
    /\ tf = [t \in Tasks |-> IdleTask]
    /\ HoistIdle
    /\ UrlIdle
    /\ ResolveIdle

NextSession ==
    \/ CssBuildStart
    \/ CssPostBuildStart
    \/ \E t \in Tasks, in \in SessionInputs : TransformStart(t, in[1], in[2])
    \/ \E t \in Tasks : PostcssConfigLoaded(t)
    \/ \E t \in Tasks : CompileResume(t)
    \/ \E t \in Tasks, r \in PreprocessResults : PreprocessDone(t, r)
    \/ \E t \in Tasks : PostcssDone(t)
    \/ \E t \in Tasks : TransformFinish(t)
    \/ \E t \in Tasks, ssr \in BOOLEAN : PostTransform(t, ssr)
    \/ HostAbort
    \/ HostGenerate
    \/ \E o \in OutputIds : \E f \in DOMAIN rc[o] : RenderChunkStart(o, f)
    \/ \E o \in OutputIds : \E f \in DOMAIN rc[o] : RenderChunkFinish(o, f)
    \/ \E o \in OutputIds : GenerateBundleStart(o)
    \/ \E o \in OutputIds : GenerateBundleFinish(o)

SpecSession == InitSession /\ [][NextSession]_vars

----------------------------------------------------------------------------
(* The hoisting specification: hoistAtImports on every bounded stylesheet *)

KidSeqs == SeqsUpTo(LeafNodes, MaxKids)
HoistNodes == LeafNodes \cup {Media(kids) : kids \in KidSeqs}
HoistInputs == SeqsUpTo(HoistNodes, MaxRules)

InitHoist ==
    /\ BuildIdle
    /\ CompileIdle
    /\ hoistIn \in HoistInputs
    /\ hoistOut = <<>>
    /\ hoistPc = "call"
    /\ UrlIdle
    /\ ResolveIdle

HoistCall ==
    /\ hoistPc = "call"
    /\ hoistOut' = HoistAtImports(hoistIn)
    /\ hoistPc' = "done"
    /\ UNCHANGED <<hoistIn, buildVars, compileVars, urlVars, resolveVars>>

NextHoist == HoistCall

SpecHoist == InitHoist /\ [][NextHoist]_vars

----------------------------------------------------------------------------
(* rewriteCssUrls: the inline url() rewrite.  A css value is a sequence of *)
(* characters.                                                             *)

UrlOpen == <<"u", "r", "l", "(">>
Quotes == {"'", "\""}

\* [\w\-\u0080-\uffff] over the characters of the values
IsWordChar(c) == c \in {"a", "b", "d", "h", "l", "p", "r", "t", "u", "-"}

CharAt(s, i) == IF i <= Len(s) THEN s[i] ELSE ""

StartsWith(s, prefix) ==
    Len(s) >= Len(prefix) /\ SubSeq(s, 1, Len(prefix)) = prefix

\* \s* from position i: the position of the first character that is no space
SkipSpace(s, i) ==
    CHOOSE j \in i..(Len(s) + 1) :
        /\ \A k \in i..(j - 1) : s[k] = " "
        /\ CharAt(s, j) # " "

\* [^...]* from position i: the position of the first character in stop
RunEnd(s, i, stop) ==
    CHOOSE j \in i..(Len(s) + 1) :
        /\ \A k \in i..(j - 1) : s[k] \notin stop
        /\ (j = Len(s) + 1 \/ s[j] \in stop)

NoMatch == [ok |-> FALSE]
MatchTo(rawUrl, end) == [ok |-> TRUE, rawUrl |-> rawUrl, end |-> end]

\* cssUrlRE tried at position i of s
CssUrlREAt(s, i) ==
    IF ~(/\ i + 3 <= Len(s)
         /\ SubSeq(s, i, i + 3) = UrlOpen
         /\ (i = 1 \/ ~IsWordChar(s[i - 1])))
    THEN NoMatch
    ELSE LET j == SkipSpace(s, i + 4)
             c == CharAt(s, j)
         IN  IF c \in Quotes
             THEN LET e == RunEnd(s, j + 1, {c})
                  IN  IF e > j + 1 /\ e <= Len(s)
                         /\ CharAt(s, SkipSpace(s, e + 1)) = ")"
                      THEN MatchTo(SubSeq(s, j, e), SkipSpace(s, e + 1))
                      ELSE NoMatch
             ELSE LET e == RunEnd(s, j, Quotes \cup {")"})
                  IN  IF e > j /\ CharAt(s, e) = ")"
                      THEN MatchTo(SubSeq(s, j, e - 1), e)
                      ELSE IF e = j /\ c = ")" /\ j > i + 4
                      THEN MatchTo(SubSeq(s, j - 1, j - 1), j)
                      ELSE NoMatch

\* cssUrlRE.exec(s): null, or the first match [matched, rawUrl] and its index
CssUrlREExec(s) ==
    LET at == {i \in 1..Len(s) : CssUrlREAt(s, i).ok}
    IN  IF at = {} THEN NullValue
        ELSE LET i == CHOOSE x \in at : \A y \in at : x <= y
                 m == CssUrlREAt(s, i)
             IN  [kind |-> "match", index |-> i,
                  matched |-> SubSeq(s, i, m.end), rawUrl |-> m.rawUrl]

\* isExternalUrl(url)
IsExternalUrl(url) ==
    \/ StartsWith(url, <<"/", "/">>)
    \/ StartsWith(url, <<"h", "t", "t", "p", ":", "/", "/">>)
    \/ StartsWith(url, <<"h", "t", "t", "p", "s", ":", "/", "/">>)

\* isDataUrl(url)
IsDataUrl(url) ==
    LET j == SkipSpace(url, 1)
    IN  SubSeq(url, j, Len(url)) # <<>>
        /\ StartsWith(SubSeq(url, j, Len(url)), <<"d", "a", "t", "a", ":">>)

\* urlReplacer: the reference the url resolves to
Replacer(url) == <<"/", "x", "/">> \o url

Replaced(text, calls) == [text |-> text, calls |-> calls]

DoUrlReplaceKeepHash(rawUrl, matched) ==
    LET first == rawUrl[1]
        wrap == IF first \in Quotes THEN <<first>> ELSE <<>>
        url == IF first \in Quotes THEN SubSeq(rawUrl, 2, Len(rawUrl) - 1) ELSE rawUrl
    IN  IF IsExternalUrl(url) \/ IsDataUrl(url)
        THEN Replaced(matched, <<>>)
        ELSE Replaced(UrlOpen \o wrap \o Replacer(url) \o wrap \o <<")">>, <<url>>)

\* doUrlReplace(rawUrl, matched, replacer): the text returned and the urls
\* the replacer was called with
DoUrlReplace(rawUrl, matched) ==
    LET first == rawUrl[1]
        wrap == IF first \in Quotes THEN <<first>> ELSE <<>>
        url == IF first \in Quotes THEN SubSeq(rawUrl, 2, Len(rawUrl) - 1) ELSE rawUrl
    IN  IF IsExternalUrl(url) \/ IsDataUrl(url) \/ StartsWith(url, <<"#">>)
        THEN Replaced(matched, <<>>)
        ELSE Replaced(UrlOpen \o wrap \o Replacer(url) \o wrap \o <<")">>, <<url>>)

\* asyncReplace(css, cssUrlRE, ...): one turn of its loop
RewriteMatch ==
    /\ urlPc = "run"
    /\ CssUrlREExec(remaining) # NullValue
    /\ LET match == CssUrlREExec(remaining)
           r == DoUrlReplace(match.rawUrl, match.matched)
       IN  /\ rewritten' = rewritten \o SubSeq(remaining, 1, match.index - 1) \o r.text
           /\ replacerCalls' = replacerCalls \o r.calls
           /\ remaining' = SubSeq(remaining, match.index + Len(match.matched),
                                  Len(remaining))
    /\ UNCHANGED <<urlCss, urlPc, buildVars, compileVars, hoistVars, resolveVars>>

\* asyncReplace: no match is left
RewriteEnd ==
    /\ urlPc = "run"
    /\ CssUrlREExec(remaining) = NullValue
    /\ rewritten' = rewritten \o remaining
    /\ remaining' = <<>>
    /\ urlPc' = "done"
    /\ UNCHANGED <<urlCss, replacerCalls, buildVars, compileVars, hoistVars,
                   resolveVars>>

\* the targets written between the parentheses of url(...)
RawUrls ==
    LET a == <<"a">>
        hash == <<"#", "a">>
        ext == <<"/", "/", "a">>
        http == <<"h", "t", "t", "p", ":", "/", "/", "a">>
        data == <<"d", "a", "t", "a", ":", "a">>
        bare == {a, hash, ext, http, data, <<"/", "a">>}
    IN  bare
        \cup {<<"'">> \o u \o <<"'">> : u \in bare}
        \cup {<<"\"">> \o u \o <<"\"">> : u \in {a, hash}}
        \cup {<<"'", " ">> \o u \o <<"'">> : u \in {hash, data}}

\* the pieces of the values: url(...) with and without spaces, text that
\* ends in a word character, and url(...) forms cssUrlRE does not match
Pieces ==
    {UrlOpen \o u \o <<")">> : u \in RawUrls}
    \cup {UrlOpen \o <<" ">> \o u \o <<" ", ")">> : u \in RawUrls}
    \cup { <<"b">>, <<" ">>, UrlOpen \o <<")">>, UrlOpen \o <<" ", ")">>,
           UrlOpen \o <<"'", "a", ")">> }

RECURSIVE Concat(_)
Concat(pieces) ==
    IF pieces = <<>> THEN <<>> ELSE Head(pieces) \o Concat(Tail(pieces))

UrlInputs == {Concat(pieces) : pieces \in SeqsUpTo(Pieces, MaxPieces)}

\* rewriteCssUrls(css, replacer) has been called
InitUrl ==
    /\ BuildIdle
    /\ CompileIdle
    /\ HoistIdle
    /\ ResolveIdle
    /\ urlCss \in UrlInputs
    /\ remaining = urlCss
    /\ rewritten = <<>>
    /\ replacerCalls = <<>>
    /\ urlPc = "run"

NextUrl ==
    \/ RewriteMatch
    \/ RewriteEnd

SpecUrl == InitUrl /\ [][NextUrl]_vars

----------------------------------------------------------------------------
(* rewriteCssImageSet *)

MaxCandidates == 2

ImageSetOpen == <<"i", "m", "a", "g", "e", "-", "s", "e", "t", "(">>

\* cssImageSetRE tried at position i of s: image-set\(([^)]+)\)
CssImageSetREAt(s, i) ==
    IF ~(i + 9 <= Len(s) /\ SubSeq(s, i, i + 9) = ImageSetOpen) THEN NoMatch
    ELSE LET e == RunEnd(s, i + 10, {")"})
         IN  IF e > i + 10 /\ e <= Len(s)
             THEN MatchTo(SubSeq(s, i + 10, e - 1), e)
             ELSE NoMatch

\* cssImageSetRE.exec(s): the leftmost match, or null
CssImageSetREExec(s) ==
    LET at == {i \in 1..Len(s) : CssImageSetREAt(s, i).ok}
    IN  IF at = {} THEN NullValue
        ELSE LET i == CHOOSE x \in at : \A y \in at : x <= y
                 m == CssImageSetREAt(s, i)
             IN  [kind |-> "match", index |-> i,
                  matched |-> SubSeq(s, i, m.end), rawUrl |-> m.rawUrl]

\* srcs.split(',')
RECURSIVE SplitOnComma(_)
SplitOnComma(s) ==
    LET e == RunEnd(s, 1, {","})
    IN  IF e > Len(s) THEN <<s>>
        ELSE <<SubSeq(s, 1, e - 1)>> \o SplitOnComma(SubSeq(s, e + 1, Len(s)))

\* trim() of text whose white space is blanks
RECURSIVE TrimEnd(_)
TrimEnd(s) ==
    IF s # <<>> /\ s[Len(s)] = " " THEN TrimEnd(SubSeq(s, 1, Len(s) - 1)) ELSE s
Trim(s) == TrimEnd(SubSeq(s, SkipSpace(s, 1), Len(s)))

\* one image candidate: its url and its descriptor
ImageCandidate(src) ==
    LET e == RunEnd(src, 1, {" "})
    IN  [url |-> SubSeq(src, 1, e - 1), descriptor |-> Trim(SubSeq(src, e, Len(src)))]

ImageCandidates(srcs) ==
    LET parts == SplitOnComma(srcs)
    IN  [k \in DOMAIN parts |-> ImageCandidate(Trim(parts[k]))]

\* the candidates written out again, from candidate k on
RECURSIVE JoinCandidates(_, _)
JoinCandidates(ret, k) ==
    IF k > Len(ret) THEN <<>>
    ELSE ret[k].url \o <<" ">> \o ret[k].descriptor
         \o (IF k = Len(ret) THEN <<>> ELSE <<",", " ">>)
         \o JoinCandidates(ret, k + 1)

\* processSrcSet(rawUrl, ({ url }) => doUrlReplace(url, matched, replacer)):
\* the text returned and the urls the replacer was called with
ProcessSrcSet(srcs, matched) ==
    LET candidates == ImageCandidates(srcs)
        replaced == [k \in DOMAIN candidates |->
                        DoUrlReplace(candidates[k].url, matched)]
        ret == [k \in DOMAIN candidates |->
                   [url |-> replaced[k].text,
                    descriptor |-> candidates[k].descriptor]]
    IN  Replaced(JoinCandidates(ret, 1),
                 Concat([k \in DOMAIN candidates |-> replaced[k].calls]))

\* asyncReplace(css, cssImageSetRE, ...): one turn of its loop
ImageSetMatch ==
    /\ urlPc = "run"
    /\ CssImageSetREExec(remaining) # NullValue
    /\ LET match == CssImageSetREExec(remaining)
           r == ProcessSrcSet(match.rawUrl, match.matched)
       IN  /\ rewritten' = rewritten \o SubSeq(remaining, 1, match.index - 1)
                             \o ImageSetOpen \o r.text \o <<")">>
           /\ replacerCalls' = replacerCalls \o r.calls
           /\ remaining' = SubSeq(remaining, match.index + Len(match.matched),
                                  Len(remaining))
    /\ UNCHANGED <<urlCss, urlPc, buildVars, compileVars, hoistVars, resolveVars>>

\* asyncReplace: no match is left
ImageSetEnd ==
    /\ urlPc = "run"
    /\ CssImageSetREExec(remaining) = NullValue
    /\ rewritten' = rewritten \o remaining
    /\ remaining' = <<>>
    /\ urlPc' = "done"
    /\ UNCHANGED <<urlCss, replacerCalls, buildVars, compileVars, hoistVars,
                   resolveVars>>

\* the urls of image candidates: bare or quoted strings, no url(...)
ImageUrls ==
    LET bare == { <<"a">>, <<"#", "a">>, <<"/", "/", "a">>,
                  <<"h", "t", "t", "p", ":", "/", "/", "a">>,
                  <<"d", "a", "t", "a", ":", "a">>, <<"/", "a">> }
    IN  bare \cup {<<"'">> \o u \o <<"'">> : u \in bare}

Descriptors == { <<"1", "x">>, <<"2", "x">> }

CandidateLists ==
    {ret \in SeqsUpTo([url : ImageUrls, descriptor : Descriptors], MaxCandidates) :
        ret # <<>>}

\* declaration values that hold an image-set(...) and no url(...)
ImageSetInputs ==
    {ImageSetOpen \o JoinCandidates(ret, 1) \o <<")">> : ret \in CandidateLists}

\* rewriteCssImageSet(css, replacer) has been called
InitImageSet ==
    /\ BuildIdle
    /\ CompileIdle
    /\ HoistIdle
    /\ ResolveIdle
    /\ urlCss \in ImageSetInputs
    /\ remaining = urlCss
    /\ rewritten = <<>>
    /\ replacerCalls = <<>>
    /\ urlPc = "run"

NextImageSet ==
    \/ ImageSetMatch
    \/ ImageSetEnd

SpecImageSet == InitImageSet /\ [][NextImageSet]_vars

----------------------------------------------------------------------------
(* the callers of the resolvers: urlReplacer, the postcss-import and       *)
(* postcss-modules resolve hooks, the Sass importer, the Less file manager *)

\* the resolvers: resolveUrl of cssPlugin and the three of createCSSResolvers
UrlResolver == "url"
CssResolver == "css"
SassResolver == "sass"
LessResolver == "less"
ResolverKeys == {UrlResolver, CssResolver, SassResolver, LessResolver}

\* Object.keys of the object createCSSResolvers returns, in its order
GetCssResolversKeys == <<CssResolver, SassResolver, LessResolver>>

Specifiers == {<<"/", "a">>, <<".", "/", "a">>, <<"a">>}

\* what one call meets: the specifier, the resolvers that find a target for
\* it, whether the public directory holds it, whether the importing module is
\* an html proxy, whether the found file needs its urls rebased
ResolveInputs ==
    [specifier : Specifiers, found : SUBSET ResolverKeys, public : BOOLEAN,
     htmlProxy : BOOLEAN, rebase : BOOLEAN]

Cwd == <<"/", "w">>

\* path.resolve: an absolute path stays, a relative one is put under the
\* working directory, a leading './' dropped
PathResolve(p) ==
    IF StartsWith(p, <<"/">>) THEN p
    ELSE IF StartsWith(p, <<".", "/">>) THEN Cwd \o <<"/">> \o SubSeq(p, 3, Len(p))
    ELSE Cwd \o <<"/">> \o p

\* one resolver asked for one specifier: the file it finds, or undefined
Resolve(key, id, in) ==
    IF key \in in.found THEN <<"/", "n", "/", key>> \o PathResolve(id)
    ELSE UndefinedValue

\* checkPublicFile: the file of the public directory a root-relative
\* specifier names, if there is one
CheckPublicFile(url, in) ==
    IF in.public /\ StartsWith(url, <<"/">>) THEN <<"/", "p">> \o url
    ELSE UndefinedValue

\* fileToUrl: the url the resolved file is served or emitted under
FileToUrl(file) == <<"/", "u">> \o file

ConfigBase == <<"/", "b", "/">>

\* what a caller hands back: the resolvers it asked and its result
Answer(asked, result) == [asked |-> asked, threw |-> FALSE, result |-> result]

\* urlReplacer, had it no way back to the specifier it was given
UrlReplacerAlwaysResolved(url, in) ==
    IF CheckPublicFile(url, in) # UndefinedValue
    THEN Answer({}, ConfigBase \o Tail(url))
    ELSE Answer({UrlResolver}, FileToUrl(PathResolve(url)))

\* urlReplacer of cssPlugin.transform
UrlReplacer(url, in) ==
    IF CheckPublicFile(url, in) # UndefinedValue
    THEN Answer({}, ConfigBase \o Tail(url))
    ELSE LET resolved == Resolve(UrlResolver, url, in)
         IN  IF resolved # UndefinedValue
             THEN Answer({UrlResolver}, FileToUrl(resolved))
             ELSE Answer({UrlResolver}, url)

\* the resolve option handed to postcss-import
ImportResolve(id, in) ==
    LET publicFile == CheckPublicFile(id, in)
    IN  IF in.htmlProxy /\ publicFile # UndefinedValue
        THEN Answer({}, publicFile)
        ELSE LET resolved == Resolve(CssResolver, id, in)
             IN  IF resolved # UndefinedValue
                 THEN Answer({CssResolver}, PathResolve(resolved))
                 ELSE Answer({CssResolver}, id)

\* the loop of the resolve option handed to postcss-modules, from key i on
RECURSIVE ModulesResolveFrom(_, _, _, _)
ModulesResolveFrom(i, asked, id, in) ==
    IF i > Len(GetCssResolversKeys) THEN Answer(asked, id)
    ELSE LET key == GetCssResolversKeys[i]
             resolved == Resolve(key, id, in)
         IN  IF resolved # UndefinedValue
             THEN Answer(asked \cup {key}, PathResolve(resolved))
             ELSE ModulesResolveFrom(i + 1, asked \cup {key}, id, in)

ModulesResolve(id, in) == ModulesResolveFrom(1, {}, id, in)

\* rebaseUrls: the file, with rebased contents when it holds urls or css
\* imports and lies in another directory
RebaseUrls(file, in) ==
    IF in.rebase
    THEN [file |-> PathResolve(file), contents |-> "rebased"]
    ELSE [file |-> PathResolve(file)]

\* internalImporter of the scss processor: what it hands to done
InternalImporter(url, in) ==
    LET resolved == Resolve(SassResolver, url, in)
    IN  IF resolved # UndefinedValue
        THEN Answer({SassResolver}, RebaseUrls(resolved, in))
        ELSE Answer({SassResolver}, NullValue)

\* loadFile of the default Less file manager
SuperLoadFile(filename) == [kind |-> "less.FileManager", filename |-> filename]

\* loadFile of ViteManager
LoadFile(filename, in) ==
    LET resolved == Resolve(LessResolver, filename, in)
    IN  IF resolved # UndefinedValue
        THEN LET result == RebaseUrls(resolved, in)
             IN  Answer({LessResolver},
                        [filename |-> PathResolve(resolved),
                         contents |-> IF "contents" \in DOMAIN result
                                      THEN result.contents ELSE "read"])
        ELSE Answer({LessResolver}, SuperLoadFile(filename))

\* the url rewrite calls urlReplacer for one url
UrlReplacerCall ==
    /\ resolvePc = "call"
    /\ resolveOut' = UrlReplacer(resolveIn.specifier, resolveIn) @@ [caller |-> "urlReplacer"]
    /\ resolvePc' = "done"
    /\ UNCHANGED <<resolveIn, buildVars, compileVars, hoistVars, urlVars>>

\* postcss-import resolves one '@import' specifier
ImportResolveCall ==
    /\ resolvePc = "call"
    /\ resolveOut' = ImportResolve(resolveIn.specifier, resolveIn) @@ [caller |-> "import"]
    /\ resolvePc' = "done"
    /\ UNCHANGED <<resolveIn, buildVars, compileVars, hoistVars, urlVars>>

\* postcss-modules resolves one composes-from specifier
ModulesResolveCall ==
    /\ resolvePc = "call"
    /\ resolveOut' = ModulesResolve(resolveIn.specifier, resolveIn) @@ [caller |-> "modules"]
    /\ resolvePc' = "done"
    /\ UNCHANGED <<resolveIn, buildVars, compileVars, hoistVars, urlVars>>

\* Sass asks the importer for one '@import' url
InternalImporterCall ==
    /\ resolvePc = "call"
    /\ resolveOut' = InternalImporter(resolveIn.specifier, resolveIn) @@ [caller |-> "sass"]
    /\ resolvePc' = "done"
    /\ UNCHANGED <<resolveIn, buildVars, compileVars, hoistVars, urlVars>>

\* Less asks the file manager for one '@import' file
LoadFileCall ==
    /\ resolvePc = "call"
    /\ resolveOut' = LoadFile(resolveIn.specifier, resolveIn) @@ [caller |-> "less"]
    /\ resolvePc' = "done"
    /\ UNCHANGED <<resolveIn, buildVars, compileVars, hoistVars, urlVars>>

InitResolve ==
    /\ BuildIdle
    /\ CompileIdle
    /\ HoistIdle
    /\ UrlIdle
    /\ resolveIn \in ResolveInputs
    /\ resolveOut = <<>>
    /\ resolvePc = "call"

NextResolve ==
    \/ UrlReplacerCall
    \/ ImportResolveCall
    \/ ModulesResolveCall
    \/ InternalImporterCall
    \/ LoadFileCall

SpecResolve == InitResolve /\ [][NextResolve]_vars

----------------------------------------------------------------------------
(* internalImporter of the scss processor, promise by promise *)

\* what one call of the importer meets: as for the resolver callers, and
\* whether the resolver's promise rejects and whether reading the found
\* file throws in rebaseUrls
ImporterInputs ==
    [specifier : Specifiers, found : SUBSET {SassResolver}, public : {FALSE},
     htmlProxy : {FALSE}, rebase : BOOLEAN,
     resolverRejects : BOOLEAN, readThrows : BOOLEAN]

RejectionReason(of) == [kind |-> "error", of |-> of]

\* Sass calls internalImporter(url, importer, done): resolvers.sass(url,
\* importer) is pending, with a fulfilment handler and no rejection handler
ImporterStart ==
    /\ resolvePc = "call"
    /\ resolvePc' = "resolving"
    /\ UNCHANGED <<resolveIn, resolveOut, buildVars, compileVars, hoistVars, urlVars>>

\* the promise of resolvers.sass settles: rejected, nothing runs; fulfilled,
\* the handler calls rebaseUrls or done(null)
SassResolverSettles ==
    /\ resolvePc = "resolving"
    /\ IF resolveIn.resolverRejects
       THEN /\ resolvePc' = "unhandled"
            /\ UNCHANGED resolveOut
       ELSE IF Resolve(SassResolver, resolveIn.specifier, resolveIn) # UndefinedValue
       THEN /\ resolvePc' = "rebasing"
            /\ UNCHANGED resolveOut
       ELSE /\ resolvePc' = "settled"
            /\ resolveOut' = Append(resolveOut, NullValue)
    /\ UNCHANGED <<resolveIn, buildVars, compileVars, hoistVars, urlVars>>

\* the promise of rebaseUrls settles: .then((data) => done?.(data)) or
\* .catch((data) => done?.(data))
RebaseSettles ==
    /\ resolvePc = "rebasing"
    /\ resolveOut' =
          Append(resolveOut,
                 IF resolveIn.readThrows THEN RejectionReason("readFileSync")
                 ELSE RebaseUrls(Resolve(SassResolver, resolveIn.specifier, resolveIn),
                                 resolveIn))
    /\ resolvePc' = "settled"
    /\ UNCHANGED <<resolveIn, buildVars, compileVars, hoistVars, urlVars>>

InitImporter ==
    /\ BuildIdle
    /\ CompileIdle
    /\ HoistIdle
    /\ UrlIdle
    /\ resolveIn \in ImporterInputs
    /\ resolveOut = <<>>
    /\ resolvePc = "call"

NextImporter ==
    \/ ImporterStart
    \/ SassResolverSettles
    \/ RebaseSettles

SpecImporter == InitImporter /\ [][NextImporter]_vars

----------------------------------------------------------------------------
(* createCSSResolvers: the getters of one resolver set *)

MaxAccesses == 4

\* config.createResolver(...): a new resolver at every call, the n-th made
CreateResolver(key, n) == [kind |-> "resolver", key |-> key, n |-> n]

\* a getter that makes a resolver at every access
GetterWithoutCache(set, key) ==
    LET made == CreateResolver(key, Len(set.created) + 1)
    IN  [set |-> [slots |-> [set.slots EXCEPT ![key] = made],
                  created |-> Append(set.created, made)],
         returned |-> made]

\* get css() / get sass() / get less():
\* return xResolve || (xResolve = config.createResolver(...))
Getter(set, key) ==
    IF Truthy(set.slots[key])
    THEN [set |-> set, returned |-> set.slots[key]]
    ELSE LET made == CreateResolver(key, Len(set.created) + 1)
         IN  [set |-> [slots |-> [set.slots EXCEPT ![key] = made],
                       created |-> Append(set.created, made)],
              returned |-> made]

\* a caller reads atImportResolvers[key]
AccessResolver(key) ==
    /\ resolvePc = "set"
    /\ Len(resolveOut) < MaxAccesses
    /\ LET got == Getter(resolveIn, key)
       IN  /\ resolveIn' = got.set
           /\ resolveOut' = Append(resolveOut, [key |-> key, returned |-> got.returned])
    /\ UNCHANGED <<resolvePc, buildVars, compileVars, hoistVars, urlVars>>

\* createCSSResolvers(config) has returned: let cssResolve, sassResolve,
\* lessResolve are undefined and no resolver has been made
InitResolvers ==
    /\ BuildIdle
    /\ CompileIdle
    /\ HoistIdle
    /\ UrlIdle
    /\ resolveIn = [slots |-> [key \in Range(GetCssResolversKeys) |-> UndefinedValue],
                    created |-> <<>>]
    /\ resolveOut = <<>>
    /\ resolvePc = "set"

NextResolvers == \E key \in Range(GetCssResolversKeys) : AccessResolver(key)

SpecResolvers == InitResolvers /\ [][NextResolvers]_vars

----------------------------------------------------------------------------
(* renderChunk over chunks of any modules *)

MaxModules == 2

CssProxy == Id("a", FALSE, "css", {"commonjs-proxy"})

\* the style of an html page, handed on as ?html-proxy&inline-css
CssHtmlInline == Id("a", FALSE, "css", {"html-proxy", "inline-css"})

\* the modules a chunk can be made of
RenderIds == {JsMain, CssA, CssB, ModuleCss, CssInline, CssProxy, CssHtmlInline}

\* what compileCSS made of each stylesheet, the css that cssPlugin.transform
\* hands on to cssPostPlugin.transform; b.css is an empty stylesheet
CompiledCss(id) ==
    CASE id = CssA -> <<Rule(1)>>
      [] id = CssB -> <<>>
      [] id = ModuleCss -> <<Rule(2)>>
      [] id = CssInline -> <<Rule(1), Rule(2)>>
      [] OTHER -> <<Rule(3)>>

\* Object.keys(chunk.modules): no id twice
ModuleLists ==
    {ids \in SeqsUpTo(RenderIds, MaxModules) :
        \A a, b \in DOMAIN ids : ids[a] = ids[b] => a = b}

\* The host has transformed every module, makes one chunk of some of them and
\* starts rendering it.  A transform that cssPostPlugin.transform leaves
\* without a trace (an inlined stylesheet, a proxy) is not waited for.
HostRender(ids) ==
    /\ phase = "build"
    /\ \A k \in DOMAIN ids :
          (/\ IsCSSRequest(ids[k]) /\ ~CommonjsProxyRE(ids[k])
           /\ ~InlineRE(ids[k]) /\ ~(InlineCSSRE(ids[k]) /\ HtmlProxyRE(ids[k])))
              => ids[k] \in DOMAIN styles
    /\ phase' = "generate"
    /\ bundle' = [o \in OutputIds |->
                    <<Chunk(MainFile, "main", ids, <<>>, <<Text(7)>>)>>]
    /\ rc' = [o \in OutputIds |-> (MainFile :> [pc |-> "ready", css |-> <<>>])]
    /\ gb' = [o \in OutputIds |-> [pc |-> "ready", css |-> <<>>]]
    /\ UNCHANGED <<config, outputs, build, emitted, postVars, removedPureCssFiles,
                   compileVars, textVars>>

\* both buildStart hooks have run
InitRender ==
    /\ config \in Configs
    /\ \E format \in Formats : outputs = <<Output(format, FALSE)>>
    /\ phase = "build"
    /\ build = 1
    /\ bundle = [o \in OutputIds |-> <<>>]
    /\ emitted = EmptyBag
    /\ styles = EmptyMap
    /\ pureCssChunks = {}
    /\ outputToExtractedCSSMap = EmptyMap
    /\ hasEmitted = FALSE
    /\ removedPureCssFiles = EmptyMap
    /\ rc = [o \in OutputIds |-> <<>>]
    /\ gb = [o \in OutputIds |-> [pc |-> "done", css |-> <<>>]]
    /\ CompileIdle
    /\ HoistIdle
    /\ UrlIdle
    /\ ResolveIdle

NextRender ==
    \/ \E id \in RenderIds : PostTransformBuild(id, CompiledCss(id))
    \/ \E ids \in ModuleLists : HostRender(ids)
    \/ \E o \in OutputIds : \E f \in DOMAIN rc[o] : RenderChunkStart(o, f)
    \/ \E o \in OutputIds : \E f \in DOMAIN rc[o] : RenderChunkFinish(o, f)

SpecRender == InitRender /\ [][NextRender]_vars

----------------------------------------------------------------------------
(* generateBundle over a graph with nested pure css chunks and retained     *)
(* chunks whose names resemble theirs                                       *)

\* style.js holds a.css and imports c.js, which holds d.scss; the entry
\* imports style.js and a script chunk
NestedFile == <<"c", ".", "j", "s">>
JsLib == Id("lib", FALSE, "js", {})

\* file names of a retained script chunk that end with "style.js"
LibFiles == { <<"m", "y">> \o StyleFile, <<"l", "/">> \o StyleFile }

PruneChunkList(libFile, format) ==
    << Chunk(MainFile, "main", <<JsMain>>, <<StyleFile, libFile>>,
             LoadStmt(format, StyleFile) \o LoadStmt(format, libFile) \o <<Text(7)>>),
       Chunk(StyleFile, "style", <<CssA>>, <<NestedFile>>, <<Text(2)>>),
       Chunk(NestedFile, "c", <<Scss>>, <<>>, <<Text(2)>>),
       Chunk(libFile, "lib", <<JsLib>>, <<>>, <<Text(5)>>) >>

\* the key orders of the bundle object: the three chunks of the import chain
\* in any order, the script chunk last
PruneOrders ==
    { <<1, 2, 3, 4>>, <<1, 3, 2, 4>>, <<2, 1, 3, 4>>,
      <<2, 3, 1, 4>>, <<3, 1, 2, 4>>, <<3, 2, 1, 4>> }

PruneGraph(libFile, format, order) ==
    [k \in 1..4 |-> PruneChunkList(libFile, format)[order[k]]]

\* The host has transformed a.css and d.scss, makes the chunks and starts
\* rendering them.
HostPrune ==
    /\ phase = "build"
    /\ {CssA, Scss} \subseteq DOMAIN styles
    /\ phase' = "generate"
    /\ \E libFile \in LibFiles, order \in PruneOrders :
          bundle' = [o \in OutputIds |->
                        PruneGraph(libFile, outputs[o].format, order)]
    /\ rc' = [o \in OutputIds |->
                [f \in {bundle'[o][i].fileName : i \in 1..Len(bundle'[o])} |->
                    [pc |-> "ready", css |-> <<>>]]]
    /\ gb' = [o \in OutputIds |-> [pc |-> "ready", css |-> <<>>]]
    /\ UNCHANGED <<config, outputs, build, emitted, postVars, removedPureCssFiles,
                   compileVars, textVars>>

NextPrune ==
    \/ \E id \in {CssA, Scss} : PostTransformBuild(id, CompiledCss(id))
    \/ HostPrune
    \/ \E o \in OutputIds : \E f \in DOMAIN rc[o] : RenderChunkStart(o, f)
    \/ \E o \in OutputIds : \E f \in DOMAIN rc[o] : RenderChunkFinish(o, f)
    \/ \E o \in OutputIds : GenerateBundleStart(o)
    \/ \E o \in OutputIds : GenerateBundleFinish(o)

SpecPrune == InitRender /\ [][NextPrune]_vars

----------------------------------------------------------------------------
(* C5 *)

\* a stylesheet with the '@import' nodes taken out of every container
WithoutNestedImports(css) ==
    [i \in 1..Len(css) |-> [css[i] EXCEPT !.kids = SelectSeq(@, NotImport)]]

\* C5: hoistAtImports returns a rule sequence in which every '@import' rule
\* precedes every other rule, the '@import' rules are those of the input in
\* their original order, the other rules are those of the input in their
\* original order, and no rule is added, dropped or duplicated.
C5_HoistKeepsOrder ==
    hoistPc = "done" =>
        /\ \A i, j \in 1..Len(hoistOut) :
              (i < j /\ IsImport(hoistOut[j])) => IsImport(hoistOut[i])
        /\ ~IncludesAtImport(SelectSeq(hoistOut, NotImport))
        /\ SelectSeq(hoistOut, IsImport) = SelectSeq(WalkNodes(hoistIn), IsImport)
        /\ SelectSeq(hoistOut, NotImport) =
              WithoutNestedImports(SelectSeq(hoistIn, NotImport))
        /\ Len(WalkNodes(hoistOut)) = Len(WalkNodes(hoistIn))

\* the hoist has moved two different '@import' rules over a leading rule
C5_Witness ==
    /\ hoistPc = "done"
    /\ Len(hoistIn) = 3
    /\ NotImport(hoistIn[1])
    /\ hoistIn[2] = AtImport(1)
    /\ hoistIn[3] = AtImport(2)
    /\ hoistOut = <<AtImport(1), AtImport(2), hoistIn[1]>>

----------------------------------------------------------------------------
(* C1, C6: the aggregated style.css *)

RECURSIVE SumCopies(_, _)
SumCopies(bag, S) ==
    IF S = {} THEN 0
    ELSE LET e == CHOOSE x \in S : TRUE
         IN  CopiesIn(e, bag) + SumCopies(bag, S \ {e})

StyleCssFiles == {e \in BagToSet(emitted) : e.name = <<"style.css">>}

\* how often generateBundle has emitted style.css, in all and for one output
StyleCssEmits == SumCopies(emitted, StyleCssFiles)
StyleCssEmitsOf(o) == SumCopies(emitted, {e \in StyleCssFiles : e.output = o})

\* the generateBundle invocations between the flag's setting and emitFile
AwaitingMinify == {o \in OutputIds : gb[o].pc = "minify"}

\* the outputs whose generateBundle is not skipped and finds extracted css
WithExtractedCss == {o \in OutputIds : ~outputs[o].skip /\ ExtractedCss(o) # <<>>}

BuildWritten == phase = "generate" /\ Quiet

\* C1: within one build, over every interleaving of the generateBundle
\* invocations, style.css is emitted at most once; the emitted flag is tested
\* and set in one step, so at most one invocation is ever between the test
\* and its emitFile; and once every invocation has returned, style.css has
\* been emitted exactly once if some invocation that was not skipped found
\* extracted css for its output.
C1_EmittedAtMostOnce ==
    /\ StyleCssEmits <= 1
    /\ phase = "generate" =>
          StyleCssEmits + Cardinality(AwaitingMinify) = (IF hasEmitted THEN 1 ELSE 0)
    /\ BuildWritten => (StyleCssEmits = 1 <=> WithExtractedCss # {})

\* two outputs have gathered css, both invocations have returned, the first
\* went through the minifier, and one style.css has been emitted
C1_Witness ==
    /\ BuildWritten
    /\ config.minify
    /\ Cardinality(WithExtractedCss) = 2
    /\ StyleCssEmits = 1

----------------------------------------------------------------------------
(* C4: the order of the rules of style.css *)

ImportsFirst(css) ==
    \A i, j \in 1..Len(css) : (i < j /\ IsImport(css[j])) => IsImport(css[i])

\* C4: in the aggregated css that generateBundle emits when code splitting is
\* off, every '@import' rule stands before every other rule.
C4_AggregatedImportsFirst ==
    \A e \in StyleCssFiles : ImportsFirst(e.source)

----------------------------------------------------------------------------
(* C11 *)

\* C11 as stated: after any sequence of generateBundle invocations in one
\* build, every filename in the removed-pure-CSS registry maps to the chunk
\* object that was in a bundle under that filename when it was removed; no
\* entry is recorded as, or overwritten by, an undefined value.
C11_RegistryHoldsChunks ==
    \A file \in DOMAIN removedPureCssFiles :
        /\ removedPureCssFiles[file] # Undefined
        /\ removedPureCssFiles[file].fileName = file

----------------------------------------------------------------------------
(* C7, C8, C9: compiling one module *)

\* compileCSS has returned to the transform call of task t
Compiled(t) ==
    /\ tf[t].pc \in {"compiled", "done", "posted"}
    /\ IsCSSRequest(tf[t].id)
    /\ ~CommonjsProxyRE(tf[t].id)

\* plain css, no '@import', no url(), no image-set(), no PostCSS configuration
PlainAndBare(t) ==
    /\ tf[t].id.ext = "css"
    /\ \A i \in 1..Len(tf[t].raw) : tf[t].raw[i].name \notin {"import", "url", "image-set"}
    /\ tf[t].postcssConfig \in {NullValue, UndefinedValue}

\* the input text unchanged, no source map, no dependencies, nothing invoked
Untouched(t) ==
    /\ tf[t].result.code = tf[t].raw
    /\ tf[t].result.map = NullValue
    /\ tf[t].result.deps = UndefinedValue
    /\ ~tf[t].ranPre
    /\ ~tf[t].ranPost

\* C7 as stated: compileCSS on a plain-CSS module with no '@import', no
\* url(), no image-set() and no resolved PostCSS configuration returns the
\* input unchanged, with no map and no dependencies, and invokes neither a
\* preprocessor nor PostCSS, for every such plain stylesheet id.
C7_PlainCssUntouched ==
    \A t \in Tasks : Compiled(t) /\ PlainAndBare(t) => Untouched(t)

\* C7, amended: the same, for every such plain stylesheet id that is not a
\* scoped-class ('.module.') id, or when css.modules is false.
C7_PlainNonModuleCssUntouched ==
    \A t \in Tasks :
        Compiled(t) /\ PlainAndBare(t) /\ ~(tf[t].id.module /\ config.cssModules)
            => Untouched(t)

C7_Witness ==
    \E t \in Tasks :
        /\ Compiled(t) /\ PlainAndBare(t) /\ Untouched(t)
        /\ tf[t].id.module
        /\ tf[t].pc = "done"

\* the calls for module id that ran the PostCSS toolchain
PipelineRuns(id) ==
    {t \in Tasks : Compiled(t) /\ tf[t].id = id /\ tf[t].ranPost}

\* C8 as stated: within one build session, two transform calls for the same
\* module id run the compile pipeline only once; the second call returns
\* the record the first one cached.
C8_CompiledOncePerId ==
    \A id \in CompileIds : Cardinality(PipelineRuns(id)) <= 1

\* C8, amended: within one build session every transform call for a css
\* module id runs the compile pipeline itself, the second call for an id as
\* much as the first: the preprocessor exactly when the id's language is a
\* preprocessor language, the toolchain unless the module is plain css that
\* needs no processing; nothing is reused from an earlier call.
C8_EveryCallCompiles ==
    \A t \in Tasks :
        Compiled(t) =>
            /\ tf[t].ranPre <=> tf[t].id.ext \in PreprocessLangs
            /\ tf[t].ranPost <=>
                   ~(PlainAndBare(t) /\ ~(tf[t].id.module /\ config.cssModules))

C8_Witness ==
    \E t1, t2 \in Tasks :
        /\ t1 # t2
        /\ tf[t1].pc = "done" /\ tf[t2].pc = "done"
        /\ Compiled(t1) /\ Compiled(t2)
        /\ tf[t1].id = tf[t2].id /\ tf[t1].raw = tf[t2].raw
        /\ tf[t1].ranPre /\ tf[t2].ranPre
        /\ tf[t1].ranPost /\ tf[t2].ranPost

\* C9 as stated: within one build session the PostCSS configuration load is
\* performed at most once, however many compileCSS calls are in flight.
C9_ConfigLoadedAtMostOnce == postcssLoads <= 1

----------------------------------------------------------------------------
(* C12 *)

\* the preprocessor adapter of task t returned a non-empty errors list
AdapterFailed(t) == tf[t].pc # "idle" /\ tf[t].errors

\* C12: when a preprocessor adapter returns a non-empty errors list,
\* compileCSS throws and the module's transform produces no output: the
\* PostCSS toolchain is not run, and the step in which the error arrives
\* writes neither the module cache nor the watch files nor the module graph;
\* the transform takes no step after it.
C12_PreprocessErrorStops ==
    [][\A t \in Tasks :
          (tf'[t].pc # "idle" /\ tf'[t].errors) =>
              /\ tf'[t].pc = "threw"
              /\ ~tf'[t].ranPost
              /\ tf'[t].result = UndefinedValue
              /\ IF AdapterFailed(t)
                 THEN tf'[t] = tf[t]
                 ELSE /\ tf[t].pc = "preprocess"
                      /\ moduleCache' = moduleCache
                      /\ watchFiles' = watchFiles
                      /\ moduleGraph' = moduleGraph]_vars

C12_Witness ==
    \E t, u \in Tasks :
        /\ AdapterFailed(t)
        /\ tf[t].pc = "threw"
        /\ tf[u].pc = "done" /\ tf[u].id = tf[t].id
        /\ watchFiles # {}
        /\ tf[t].id \notin DOMAIN moduleCache

----------------------------------------------------------------------------
(* C13 *)

\* the dependency set of a compile; a compile that returns no deps has none
DepsOf(result) ==
    IF result.deps = UndefinedValue THEN {} ELSE result.deps.files

\* C13 as stated: in dev mode, when a transform of a module that is in the
\* module graph completes, the module's dependency edge set equals the
\* dependency set of that compile, the most recent one; a new version with
\* no dependencies removes the edges of the previous version.
C13_EdgesFollowLastCompile ==
    [][\A t \in Tasks :
          (/\ tf[t].pc = "compiled" /\ tf'[t].pc = "done"
           /\ config.command = "serve"
           /\ tf[t].id \in DOMAIN moduleGraph)
          => moduleGraph'[tf[t].id].importedModules = DepsOf(tf[t].result)]_vars

----------------------------------------------------------------------------
(* C14 *)

\* cssPostPlugin.transform has returned for task t, a css request in serve mode
ServedCss(t) ==
    /\ tf[t].pc = "posted"
    /\ config.command = "serve"
    /\ tf[t].id.ext \in CssLangs
    /\ "commonjs-proxy" \notin tf[t].id.query

\* the updateStyle / removeStyle statements of the runtime snippet
StyleCalls ==
    { "import updateStyle, removeStyle", "updateStyle(__vite__id, __vite__css)",
      "import.meta.hot.prune(removeStyle(__vite__id))" }

CallsIn(out) ==
    { out[i].stmt : i \in {k \in DOMAIN out : "stmt" \in DOMAIN out[k]} }

IsDefaultExportOf(out, css) ==
    out = <<[stmt |-> "export default", value |-> css]>>

IsModulesExport(out) ==
    Len(out) = 1 /\ "stmt" \in DOMAIN out[1] /\ out[1].stmt = "export modules"

\* C14: in serve mode cssPostPlugin.transform returns, by priority: for a
\* direct request the compiled css unchanged; else for an SSR request the
\* scoped-class export code if the module has one, else a default export
\* of the css string; else for an ?inline request a default export of the
\* css string; else the runtime snippet that calls updateStyle and
\* registers removeStyle on prune.  The updateStyle / removeStyle code
\* appears in the last case only.
C14_ServeOutputPriority ==
    \A t \in Tasks :
        ServedCss(t) =>
            LET id == tf[t].id
                css == tf[t].result.code
                out == tf[t].out
            IN  /\ CASE "direct" \in id.query -> out = css
                     [] tf[t].ssr /\ id \in DOMAIN moduleCache -> IsModulesExport(out)
                     [] tf[t].ssr -> IsDefaultExportOf(out, css)
                     [] "inline" \in id.query -> IsDefaultExportOf(out, css)
                     [] OTHER -> StyleCalls \subseteq CallsIn(out)
                /\ ("direct" \in id.query \/ tf[t].ssr \/ "inline" \in id.query)
                      => CallsIn(out) \cap StyleCalls = {}

C14_Witness ==
    \E t, u \in Tasks :
        /\ ServedCss(t) /\ ServedCss(u)
        /\ "inline" \in tf[t].id.query /\ ~tf[t].ssr
        /\ IsDefaultExportOf(tf[t].out, tf[t].result.code)
        /\ tf[u].id.module /\ ~tf[u].ssr
        /\ StyleCalls \subseteq CallsIn(tf[u].out)

----------------------------------------------------------------------------
(* C15 *)

\* C15: after buildStart of both plugins, the module compile cache, the
\* removed-pure-CSS registry, the pure-chunk set and the per-output
\* extracted-CSS map are all empty and the emitted flag is false, whatever
\* the previous build left behind.
C15_BuildStartsEmpty ==
    [][(phase = "cssStarted" /\ phase' = "build") =>
          /\ moduleCache' = EmptyMap
          /\ removedPureCssFiles' = EmptyMap
          /\ pureCssChunks' = {}
          /\ outputToExtractedCSSMap' = EmptyMap
          /\ ~hasEmitted']_vars

\* the second build has started after a build that stored scoped-class
\* exports, pruned a pure css chunk or emitted the extracted css
C15_Witness ==
    /\ build = 2
    /\ phase = "build"
    /\ moduleCache = EmptyMap /\ pureCssChunks = {} /\ ~hasEmitted
    /\ \E t \in Tasks : tf[t].pc = "posted" /\ tf[t].session = 1 /\ tf[t].id.module
    /\ \/ \E o \in DOMAIN bundle : Len(bundle[o]) = 1
       \/ \E o \in DOMAIN gb : gb[o].css # <<>>

----------------------------------------------------------------------------
(* C16 *)

\* the entries of a map other than the one of id
EntriesExcept(map, id) == [k \in DOMAIN map \ {id} |-> map[k]]

\* C16: a transform of module id X changes only X's own entries in the
\* per-build module cache and in the recorded-styles map; the entries of
\* every other module id are left unchanged.
C16_OnlyOwnEntries ==
    [][\A t \in Tasks :
          (tf'[t] # tf[t]) =>
              /\ EntriesExcept(moduleCache', tf'[t].id)
                     = EntriesExcept(moduleCache, tf'[t].id)
              /\ EntriesExcept(styles', tf'[t].id)
                     = EntriesExcept(styles, tf'[t].id)]_vars

C16_Witness ==
    \E t, u \in Tasks :
        /\ tf[t].pc = "posted" /\ tf[u].pc = "posted"
        /\ tf[t].id # tf[u].id
        /\ tf[t].id \in DOMAIN moduleCache /\ tf[u].id \notin DOMAIN moduleCache
        /\ tf[t].id \in DOMAIN styles /\ tf[u].id \in DOMAIN styles
        /\ styles[tf[t].id] # styles[tf[u].id]

----------------------------------------------------------------------------
(* C17 *)

\* the call asked at least one resolver and none it asked found a target
NothingFound ==
    /\ resolvePc = "done"
    /\ resolveOut.asked # {}
    /\ resolveOut.asked \cap resolveIn.found = {}

\* C17: when the resolver a caller asks finds no target, no error is raised
\* and the original specifier is used as is: urlReplacer returns the original
\* url, the postcss-import and postcss-modules resolve hooks return the
\* original id, the Sass importer hands null to done, and the Less file
\* manager defers to the loadFile of the default file manager with the
\* original file name.
C17_UnresolvedFallsBack ==
    NothingFound =>
        /\ ~resolveOut.threw
        /\ resolveOut.caller \in {"urlReplacer", "import", "modules"} =>
               resolveOut.result = resolveIn.specifier
        /\ resolveOut.caller = "sass" => resolveOut.result = NullValue
        /\ resolveOut.caller = "less" =>
               resolveOut.result = SuperLoadFile(resolveIn.specifier)

\* the scoped-class resolve hook has asked all three resolvers for a relative
\* specifier, none found it, and the specifier came back
C17_Witness ==
    /\ NothingFound
    /\ resolveOut.caller = "modules"
    /\ resolveOut.asked = {CssResolver, SassResolver, LessResolver}
    /\ resolveIn.specifier = <<".", "/", "a">>
    /\ resolveOut.result = resolveIn.specifier

----------------------------------------------------------------------------
(* C19 *)

\* transform call t returns from its compile in this step, and the build
\* session it started in has been replaced by a later buildStart
StaleCompileCompletes(t) ==
    /\ tf[t].pc = "compiled"
    /\ tf'[t].pc = "done"
    /\ tf[t].session # build

\* C19 as stated: a compile that started in one build session and completes
\* after a later buildStart has replaced the session does not write into the
\* new session's caches: its scoped-class export map is not stored in the
\* new module cache.
C19_StaleCompileDiscarded ==
    [][\A t \in DOMAIN tf :
          StaleCompileCompletes(t) => moduleCache' = moduleCache]_vars

----------------------------------------------------------------------------
(* C20 *)

\* every renderChunk invocation for output o has completed, on the branch
\* that gathers the css of the output in one buffer
AllRendered(o) ==
    /\ phase = "generate"
    /\ RenderBranch(o) = "extract"
    /\ DOMAIN rc[o] # {}
    /\ \A f \in DOMAIN rc[o] : rc[o][f].pc = "done"

\* the chunks of output o that have css
CssChunks(o) == {i \in 1..Len(bundle[o]) : ChunkCSS(bundle[o][i].modules) # <<>>}

\* the orders in which the chunks with css can have reached the buffer
CompletionOrders(o) ==
    {order \in [1..Cardinality(CssChunks(o)) -> CssChunks(o)] :
        \A a, b \in DOMAIN order : order[a] = order[b] => a = b}

\* the processed css of the chunks, appended in the given order
RECURSIVE Gathered(_, _)
Gathered(o, order) ==
    IF order = <<>> THEN <<>>
    ELSE ProcessChunkCSS(ChunkCSS(bundle[o][Head(order)].modules), FALSE, FALSE)
         \o Gathered(o, Tail(order))

\* C20: with code splitting disabled, once all renderChunk invocations for
\* one output have completed, in any interleaving at their suspension points,
\* the buffer of that output is the processed css of every chunk that had
\* css, each exactly once, in the order the invocations completed: no
\* chunk's contribution is lost or duplicated.
C20_BufferHoldsEachChunkOnce ==
    \A o \in OutputIds :
        AllRendered(o) =>
            \E order \in CompletionOrders(o) : ExtractedCss(o) = Gathered(o, order)

\* two chunks of one output had css, the later chunk of the bundle completed
\* first, and the buffer holds both contributions
C20_Witness ==
    \E o \in OutputIds :
        /\ AllRendered(o)
        /\ Cardinality(CssChunks(o)) = 2
        /\ \E order \in CompletionOrders(o) :
               /\ order[1] > order[2]
               /\ ExtractedCss(o) = Gathered(o, order)
               /\ ExtractedCss(o) # Gathered(o, <<order[2], order[1]>>)

----------------------------------------------------------------------------
(* C21 *)

\* the renderChunk invocation for chunk f of output o returns in this step,
\* and the chunk has css
ReturnsWithCss(o, f) ==
    /\ phase = "generate"
    /\ f \in DOMAIN rc[o]
    /\ rc[o][f].pc # "done"
    /\ rc'[o][f].pc = "done"
    /\ ChunkCSS(BundleGet(bundle[o], f).modules) # <<>>

\* where the css of chunk f has gone once the invocation has returned: an
\* asset of the chunk, the front of the chunk's code, the buffer of the
\* output, or nowhere
SentTo(o, f, destination) ==
    LET before == BundleGet(bundle[o], f)
        after == BundleGet(bundle'[o], f)
        css == ProcessChunkCSS(ChunkCSS(before.modules),
                               destination = "inject", destination # "extract")
        file == [output |-> o, name |-> <<before.name, ".css">>, source |-> css]
    IN  /\ IF destination = "asset"
           THEN /\ emitted' = emitted (+) SetToBag({file})
                /\ AssetFile(file.name, css) \in after.importedCss
           ELSE emitted' = emitted
        /\ after.code = IF destination = "inject"
                        THEN <<InjectCode(css)>> \o before.code ELSE before.code
        /\ outputToExtractedCSSMap' =
              IF destination = "extract" THEN AppendExtracted(o, css)
              ELSE outputToExtractedCSSMap

\* the destination by the output format and build.cssCodeSplit alone
DestinationByFormat(o) ==
    IF ~config.cssCodeSplit THEN "extract"
    ELSE IF outputs[o].format \in {"es", "cjs"} THEN "asset" ELSE "inject"

\* C21 as stated: renderChunk sends a chunk's non-empty css to exactly one
\* destination, chosen by code splitting and the output format alone, and no
\* chunk's css is dropped.
C21_OneDestinationByFormat ==
    [][\A o \in OutputIds : \A f \in DOMAIN rc[o] :
          ReturnsWithCss(o, f) => SentTo(o, f, DestinationByFormat(o))]_vars

\* C21, amended: renderChunk sends a chunk's non-empty css to exactly one
\* destination: with code splitting on and format es or cjs an asset whose
\* file name is added to the chunk's importedCss; with code splitting on, any
\* other format and build.ssr off, the front of the chunk code as a
\* style-injection snippet; with code splitting off the buffer of the output,
\* with nothing emitted during rendering. With code splitting on, any other
\* format and build.ssr on, the css is sent nowhere.
C21_OneDestination ==
    [][\A o \in OutputIds : \A f \in DOMAIN rc[o] :
          ReturnsWithCss(o, f) =>
              SentTo(o, f, IF DestinationByFormat(o) = "inject" /\ config.ssr
                           THEN "none" ELSE DestinationByFormat(o))]_vars

\* in an ssr build with code splitting on, the chunks of the es output have
\* their css in assets and a chunk of the system output has returned with its
\* css neither emitted nor injected
C21_Witness ==
    /\ phase = "generate"
    /\ config.cssCodeSplit /\ config.ssr
    /\ \E o \in OutputIds : \E f \in DOMAIN rc[o] :
           /\ outputs[o].format = "system"
           /\ rc[o][f].pc = "done"
           /\ ChunkCSS(BundleGet(bundle[o], f).modules) # <<>>
           /\ BundleGet(bundle[o], f).code[1].t # "inject"
           /\ \A e \in BagToSet(emitted) : e.output # o
    /\ \E e \in BagToSet(emitted) : outputs[e.output].format = "es"

----------------------------------------------------------------------------
(* C22 *)

\* the renderChunk invocation for chunk f of output o runs up to its first
\* await, or to its return, in this step
RenderChunkRuns(o, f) ==
    /\ phase = "generate"
    /\ f \in DOMAIN rc[o]
    /\ rc[o][f].pc = "ready"
    /\ rc'[o][f].pc # "ready"

\* the chunk has modules and each is a stylesheet request
AllStylesheets(ids) == ids # <<>> /\ \A k \in DOMAIN ids : IsCSSRequest(ids[k])

\* every module is a stylesheet request that is neither a css module file
\* nor a commonjs proxy
AllPlainStylesheets(ids) ==
    \A k \in DOMAIN ids :
        IsCSSRequest(ids[k]) /\ ~CssModuleRE(ids[k]) /\ ~CommonjsProxyRE(ids[k])

\* the css recorded for the modules of the chunk
RecordedCss(ids) ==
    Concat([k \in DOMAIN ids |->
               IF ids[k] \in DOMAIN styles THEN styles[ids[k]] ELSE <<>>])

\* C22 as stated: with code splitting enabled, renderChunk registers a chunk
\* in the pure-css set whenever every module id of the chunk is a stylesheet
\* request.
C22_RegisteredWhenAllStylesheets ==
    [][\A o \in OutputIds : \A f \in DOMAIN rc[o] :
          (RenderChunkRuns(o, f) /\ config.cssCodeSplit
             /\ AllStylesheets(BundleGet(bundle[o], f).modules))
              => f \in pureCssChunks']_vars

\* C22, amended: with code splitting enabled, renderChunk registers a chunk
\* in the pure-css set exactly when the css recorded for its modules is not
\* empty and every module id of the chunk is a stylesheet request that is
\* neither a css module file nor a commonjs proxy; with code splitting
\* disabled it registers none.
C22_RegisteredWhenPure ==
    [][\A o \in OutputIds : \A f \in DOMAIN rc[o] :
          RenderChunkRuns(o, f) =>
              LET ids == BundleGet(bundle[o], f).modules
              IN  f \in pureCssChunks' <=>
                      /\ config.cssCodeSplit
                      /\ RecordedCss(ids) # <<>>
                      /\ AllPlainStylesheets(ids)]_vars

\* with code splitting on, a chunk of a stylesheet and an inlined stylesheet
\* has been registered, its css being that of the first alone
C22_Witness ==
    /\ phase = "generate"
    /\ config.cssCodeSplit
    /\ \E o \in OutputIds : \E f \in DOMAIN rc[o] :
           /\ rc[o][f].pc # "ready"
           /\ BundleGet(bundle[o], f).modules = <<CssInline, CssA>>
           /\ f \in pureCssChunks

----------------------------------------------------------------------------
(* C23 *)

\* the stylesheet modules that were compiled: cssPlugin.transform compiles
\* every stylesheet request but a commonjs proxy
IsCompiledStylesheet(id) == IsCSSRequest(id) /\ ~CommonjsProxyRE(id)

\* the stylesheet modules whose css cssPostPlugin.transform records: not the
\* inlined ones, not the inline styles of an html page
IsRecordedStylesheet(id) ==
    /\ IsCompiledStylesheet(id)
    /\ ~InlineRE(id)
    /\ ~(InlineCSSRE(id) /\ HtmlProxyRE(id))

\* the compiled css of the modules of each kind, in module order
CompiledCssOfCompiled(ids) ==
    Concat([k \in DOMAIN ids |->
               IF IsCompiledStylesheet(ids[k]) THEN CompiledCss(ids[k]) ELSE <<>>])
CompiledCssOfRecorded(ids) ==
    Concat([k \in DOMAIN ids |->
               IF IsRecordedStylesheet(ids[k]) THEN CompiledCss(ids[k]) ELSE <<>>])

\* renderChunk has gathered css for every chunk it is rendering or has
\* rendered, and has handed it to processChunkCSS where it awaits that
Accumulates(o, f, css) ==
    /\ ChunkCSS(BundleGet(bundle[o], f).modules) = css
    /\ rc[o][f].pc = "await" =>
           rc[o][f].css = ProcessChunkCSS(css, RenderBranch(o) = "inject",
                                          RenderBranch(o) # "extract")

\* C23 as stated: the css that renderChunk accumulates for a chunk is the
\* concatenation, in the order of the chunk's modules, of the compiled css of
\* every stylesheet module the chunk contains.
C23_AccumulatesEveryStylesheet ==
    phase = "generate" =>
        \A o \in OutputIds : \A f \in DOMAIN rc[o] :
            Accumulates(o, f, CompiledCssOfCompiled(BundleGet(bundle[o], f).modules))

\* C23, amended: the css that renderChunk accumulates for a chunk is the
\* concatenation, in the order of the chunk's modules, of the compiled css of
\* every stylesheet module of the chunk that is neither requested with the
\* inline query nor the inline style of an html page.
C23_AccumulatesRecordedStylesheets ==
    phase = "generate" =>
        \A o \in OutputIds : \A f \in DOMAIN rc[o] :
            Accumulates(o, f, CompiledCssOfRecorded(BundleGet(bundle[o], f).modules))

\* a chunk of a css module file followed by a plain stylesheet awaits the
\* processing of the css of the two, in that order
C23_Witness ==
    /\ phase = "generate"
    /\ ~config.minify
    /\ \E o \in OutputIds : \E f \in DOMAIN rc[o] :
           /\ BundleGet(bundle[o], f).modules = <<ModuleCss, CssA>>
           /\ rc[o][f].pc = "await"
           /\ rc[o][f].css = <<Rule(2), Rule(1)>>

----------------------------------------------------------------------------
(* C2, C3: pruning the pure css chunks *)

\* generateBundle for output o runs its pruning in this step
PruneStep(o) ==
    /\ gb[o].pc = "ready"
    /\ gb'[o].pc \in {"minify", "done"}


\* the chunk object that was bundle[o][file], after the step
ChunkAfter(o, file) ==
    IF HasFile(bundle'[o], file) THEN BundleGet(bundle'[o], file)
    ELSE removedPureCssFiles'[file]

Relinked(o) ==
    \A i, j \in 1..Len(bundle[o]) :
        LET A == bundle[o][i]
            B == bundle[o][j]
        IN  (A.fileName \in pureCssChunks /\ A.fileName \in Range(B.imports)) =>
                /\ ~HasFile(bundle'[o], A.fileName)
                /\ A.fileName \notin Range(ChunkAfter(o, B.fileName).imports)
                /\ A.importedCss \subseteq ChunkAfter(o, B.fileName).importedCss

\* C2 as claimed: after any generateBundle invocation with code splitting on
C2_AnyOutputRelinked ==
    [][\A o \in OutputIds :
          (PruneStep(o) /\ config.cssCodeSplit) => Relinked(o)]_vars

\* C2: with code splitting on, after generateBundle has run for an output
\* that is not marked __vite_skip_asset_emit__, on a bundle in which chunk A
\* is registered as pure css and chunk B imports A: A is no longer in the
\* bundle, A is no longer among B's imports, and B's importedCss holds every
\* entry A's importedCss had.
C2_PrunedAndRelinked ==
    [][\A o \in OutputIds :
          (PruneStep(o) /\ config.cssCodeSplit /\ ~outputs[o].skip) => Relinked(o)]_vars

\* the css chunk has been pruned from the es bundle and its css file is now
\* listed under the chunk that imported it
C2_Witness ==
    /\ phase = "generate"
    /\ config.cssCodeSplit
    /\ gb[1].pc = "done"
    /\ StyleFile \in pureCssChunks
    /\ ~HasFile(bundle[1], StyleFile)
    /\ HasFile(bundle[1], MainFile)
    /\ BundleGet(bundle[1], MainFile).imports = <<>>
    /\ \E a \in BundleGet(bundle[1], MainFile).importedCss : a.asset = <<"style", ".css">>
    /\ StyleFile \in DOMAIN removedPureCssFiles
    /\ removedPureCssFiles[StyleFile] # Undefined

\* C3: pruning replaces every matched import/require statement by a comment
\* of the same number of characters, so the length of the code of every chunk
\* that stays in the bundle is unchanged.
C3_CodeLengthUnchanged ==
    [][\A o \in OutputIds :
          PruneStep(o) =>
              \A i \in 1..Len(bundle[o]) :
                  HasFile(bundle'[o], bundle[o][i].fileName) =>
                      CodeLength(BundleGet(bundle'[o], bundle[o][i].fileName).code)
                          = CodeLength(bundle[o][i].code)]_vars

----------------------------------------------------------------------------
(* C18 *)

\* the pieces of the code that are no statements are the same in both
SameOtherText(before, after) ==
    /\ Len(after) = Len(before)
    /\ \A k \in 1..Len(before) :
           before[k].t \notin {"import", "require"} => after[k] = before[k]

\* C18 as stated: pruning leaves the number of line breaks of every importer
\* chunk's code unchanged, so that each line after a replaced import or
\* require keeps its line number.
C18_LineBreaksUnchanged ==
    [][\A o \in OutputIds :
          PruneStep(o) =>
              \A i \in 1..Len(bundle[o]) :
                  HasFile(bundle'[o], bundle[o][i].fileName) =>
                      LET after == BundleGet(bundle'[o], bundle[o][i].fileName).code
                      IN  /\ SameOtherText(bundle[o][i].code, after)
                          /\ StatementLineBreaks(after)
                                 = StatementLineBreaks(bundle[o][i].code)]_vars

----------------------------------------------------------------------------
(* C10 *)

\* the target of a url(...) without its quotes, and its quote character
Unquoted(rawUrl) ==
    IF rawUrl[1] \in {"'", "\""} THEN SubSeq(rawUrl, 2, Len(rawUrl) - 1) ELSE rawUrl
QuoteOf(rawUrl) ==
    IF rawUrl[1] \in {"'", "\""} THEN <<rawUrl[1]>> ELSE <<>>

\* an external URL, a data URI, or a target that starts with '#'
LeftAlone(target) ==
    IsExternalUrl(target) \/ IsDataUrl(target) \/ Head(target) = "#"

\* the targets of the url(...) occurrences of a value, in order
RECURSIVE UrlsOf(_)
UrlsOf(css) ==
    LET match == CssUrlREExec(css)
    IN  IF match = NullValue THEN <<>>
        ELSE <<match.rawUrl>>
             \o UrlsOf(SubSeq(css, match.index + Len(match.matched), Len(css)))

\* C10: in the inline url() rewrite, a url(...) whose unquoted target is an
\* external URL, a data URI or starts with '#' is returned unchanged and
\* the replacer is not called for it; every other url(...) becomes
\* url(<q><replacer(target)><q>), q being the original quote character or
\* nothing when the target was unquoted.
C10_UrlRewrite ==
    [][urlPc = "run" /\ CssUrlREExec(remaining) # NullValue =>
        LET match == CssUrlREExec(remaining)
            before == SubSeq(remaining, 1, match.index - 1)
            target == Unquoted(match.rawUrl)
            q == QuoteOf(match.rawUrl)
        IN  IF LeftAlone(target)
            THEN /\ rewritten' = rewritten \o before \o match.matched
                 /\ replacerCalls' = replacerCalls
            ELSE /\ rewritten' = rewritten \o before \o <<"u", "r", "l", "(">> \o q
                                     \o Replacer(target) \o q \o <<")">>
                 /\ replacerCalls' = Append(replacerCalls, target)]_vars

C10_Witness ==
    /\ urlPc = "done"
    /\ rewritten # urlCss
    /\ Len(replacerCalls) = 1
    /\ \E i, j \in DOMAIN UrlsOf(urlCss) :
          /\ Head(Unquoted(UrlsOf(urlCss)[i])) = "#"
          /\ ~LeftAlone(Unquoted(UrlsOf(urlCss)[j]))
          /\ QuoteOf(UrlsOf(urlCss)[j]) = <<"'">>

----------------------------------------------------------------------------
(* C24 *)

\* the url of the candidate is external, a data uri or a fragment
IsSkipped(candidate) ==
    LET url == Unquoted(candidate.url)
    IN  IsExternalUrl(url) \/ IsDataUrl(url) \/ StartsWith(url, <<"#">>)

\* how often image-set( is written in the text
ImageSetCount(text) ==
    Cardinality({i \in 1..Len(text) :
                    i + 9 <= Len(text) /\ SubSeq(text, i, i + 9) = ImageSetOpen})

\* the candidates between the parentheses of the one image-set(...) of text
CandidatesOf(text) == ImageCandidates(SubSeq(text, 11, Len(text) - 1))

\* C24 as stated: in the inline rewrite of image-set(...), a candidate whose
\* url is external, a data uri or a fragment is left as it was: rewriting an
\* image-set(...) whose candidates are all such values returns the value
\* unchanged, and in general the result is a single image-set(...) with one
\* candidate per original candidate.
C24_SkippedCandidatesLeftAlone ==
    urlPc = "done" =>
        LET before == CandidatesOf(urlCss)
        IN  /\ (\A k \in DOMAIN before : IsSkipped(before[k])) => rewritten = urlCss
            /\ ImageSetCount(rewritten) = 1
            /\ Len(CandidatesOf(rewritten)) = Len(before)
            /\ \A k \in DOMAIN before :
                   IsSkipped(before[k]) => CandidatesOf(rewritten)[k] = before[k]

----------------------------------------------------------------------------
(* C25 *)

\* what the composition of two maps is specified to be
Composed(map1, map2) ==
    IF Truthy(map1) /\ Truthy(map2) THEN SourceMap(<<map1, map2>>)
    ELSE IF Truthy(map1) THEN map1
    ELSE IF Truthy(map2) THEN map2
    ELSE UndefinedValue

\* transform call t has the result of its adapter
Preprocessed(t) ==
    tf[t].pc \in {"postcss", "compiled", "done", "posted"} /\ tf[t].ranPre

\* C25 as stated: combineSourcemapsIfExists returns the combination of the
\* two maps when both exist, the one that exists, whichever of the two it is,
\* when exactly one exists, and undefined when neither exists: so for the map
\* compileCSS keeps of the adapter's map and additional map.
C25_OneMapPassedThrough ==
    \A t \in DOMAIN tf :
        Preprocessed(t) =>
            tf[t].preprocessorMap =
                Composed(tf[t].preprocessResult.map,
                         tf[t].preprocessResult.additionalMap)

----------------------------------------------------------------------------
(* C26 *)

\* transform call t has built the plugin chain and handed its code, the
\* adapter's output for a preprocessed dialect, to the toolchain
ChainBuilt(t) ==
    tf[t].pc \in {"postcss", "compiled", "done", "posted"} /\ tf[t].ranPost

\* C26 as stated: compileCSS adds the inline-import plugin to the chain if
\* and only if the code handed to the toolchain, which for a preprocessed
\* dialect is the preprocessor's output, contains an '@import'.
C26_InlineImportWhenImportRemains ==
    \A t \in DOMAIN tf :
        (ChainBuilt(t) /\ tf[t].pc = "postcss") =>
            ("postcss-import" \in Range(tf[t].postcssPlugins)
                <=> IncludesAtImport(tf[t].code))

----------------------------------------------------------------------------
(* C27 *)

\* transform call t compiles a stylesheet, has passed the test of the fast
\* path without taking it, and has the result of its adapter if it has one
PastFastPath(t) ==
    /\ tf[t].pc \in {"postcss", "compiled", "done", "posted"}
    /\ IsCSSRequest(tf[t].id) /\ ~CommonjsProxyRE(tf[t].id)
    /\ ~NeedsNoProcessing(tf[t].id, tf[t].raw, tf[t].postcssConfig)

\* C27: for every module that does not take the fast path and that
\* compileCSS compiles to the end, the url rewrite plugin is in the chain,
\* once, as its last plugin, so the chain is never empty, the toolchain runs,
\* and compileCSS returns a defined dependency set.
C27_UrlRewriteLast ==
    \A t \in DOMAIN tf :
        PastFastPath(t) =>
            LET chain == tf[t].postcssPlugins
            IN  /\ chain # <<>>
                /\ chain[Len(chain)] = "vite-url-rewrite"
                /\ \A k \in 1..(Len(chain) - 1) : chain[k] # "vite-url-rewrite"
                /\ tf[t].ranPost
                /\ tf[t].pc # "postcss" => Truthy(tf[t].result.deps)

\* a preprocessed stylesheet has been compiled with no PostCSS configuration,
\* no '@import' and no scoped classes: the url rewrite is the whole chain
C27_Witness ==
    \E t \in DOMAIN tf :
        /\ PastFastPath(t)
        /\ tf[t].pc = "compiled"
        /\ tf[t].ranPre
        /\ tf[t].postcssPlugins = <<"vite-url-rewrite">>
        /\ tf[t].result.deps.files = {}

----------------------------------------------------------------------------
(* C28 *)

\* the resolvers made for one key, and the accesses of its getter
CreatedFor(key) == SelectSeq(resolveIn.created, LAMBDA r : r.key = key)
AccessesOf(key) == SelectSeq(resolveOut, LAMBDA a : a.key = key)

\* C28: each of the three '@import' resolvers (css, sass, less) is
\* constructed at most once per resolver set, on the first access of its
\* getter and not before; every later access returns the same resolver.
C28_ResolversMadeOnceOnFirstAccess ==
    resolvePc = "set" =>
        \A key \in Range(GetCssResolversKeys) :
            /\ Len(CreatedFor(key)) = (IF AccessesOf(key) = <<>> THEN 0 ELSE 1)
            /\ \A k \in DOMAIN AccessesOf(key) :
                   AccessesOf(key)[k].returned = CreatedFor(key)[1]

\* the sass getter was read twice and the less getter once between the two:
\* two resolvers were made, none for css
C28_Witness ==
    /\ resolvePc = "set"
    /\ Len(AccessesOf(SassResolver)) = 2
    /\ Len(AccessesOf(LessResolver)) = 1
    /\ resolveOut[2].key = LessResolver
    /\ Len(resolveIn.created) = 2
    /\ ~Truthy(resolveIn.slots[CssResolver])

----------------------------------------------------------------------------
(* C29 *)

\* the adapter has handed its options to the dialect's compiler
Handed == resolvePc \in {"render", "returned", "thrown", "composed"}

\* the user's importers (Sass) or plugins (Less), in the order given
UserHooks(options, compiler) ==
    IF compiler = "less"
    THEN (IF Truthy(options.plugins) THEN options.plugins.items ELSE <<>>)
    ELSE IF ~Truthy(options.importer) THEN <<>>
    ELSE IF options.importer.kind = "array" THEN options.importer.items
    ELSE <<options.importer.item>>

\* the hooks the compiler was given: importer for Sass and Stylus options,
\* plugins for Less
HandedHooks ==
    UserHooks(resolveOut.options, resolveOut.compiler)

InternalHook == {Hook("internalImporter", 0), Hook("viteResolverPlugin", 0)}

HookFirst ==
    /\ HandedHooks # <<>>
    /\ HandedHooks[1] \in InternalHook
    /\ Tail(HandedHooks) = UserHooks(resolveIn.options, resolveOut.compiler)

\* C29 as stated: every preprocessor adapter (Sass/SCSS, Less and Stylus)
\* installs the internal import-resolution hook, and places it before any
\* user-supplied importer or plugin so that it is consulted first.
C29_HookFirstInEveryAdapter == Handed => HookFirst

\* C29: the Sass/SCSS and Less adapters install the internal
\* import-resolution hook before any user-supplied importer or plugin; the
\* Stylus adapter installs none and hands over the options it was given.
C29_HookFirstForSassAndLess ==
    Handed =>
        IF resolveOut.compiler = "stylus"
        THEN /\ resolveOut.options = resolveIn.options
             /\ \A k \in DOMAIN HandedHooks : HandedHooks[k] \notin InternalHook
        ELSE HookFirst

\* the Sass adapter was given an array of two importers and handed over three
C29_Witness ==
    /\ Handed
    /\ resolveOut.compiler = "sass"
    /\ Len(UserHooks(resolveIn.options, "sass")) = 2
    /\ Len(HandedHooks) = 3
    /\ HookFirst

----------------------------------------------------------------------------
(* C30 *)

IsComputed(additionalData) ==
    Truthy(additionalData) /\ additionalData.kind = "function"

IsStatic(additionalData) ==
    ~NoAdditionalData(additionalData) /\ additionalData.kind = "string"

\* the map of the prepended segment came back as additionalMap and
\* compileCSS composed it with the dialect's own map
SyntheticMapComposed ==
    /\ resolveIn.result.additionalMap = GenerateMap(resolveIn.options.filename)
    /\ resolveIn.preprocessorMap =
           SourceMap(<<resolveIn.result.map, resolveIn.result.additionalMap>>)

\* C30 as stated: when the additional data is computed (a function of
\* source and filename), getSource returns, together with the new content, a
\* synthetic source map for the prepended segment, which the adapter returns
\* as additionalMap and which is composed with the dialect's own map.
C30_ComputedDataGetsSyntheticMap ==
    (resolvePc = "composed" /\ IsComputed(resolveIn.options.additionalData)
        /\ Truthy(resolveIn.result.map))
        => SyntheticMapComposed

\* C30: the synthetic map of the prepended segment is made when the
\* additional data is a non-empty string; the adapter returns it as
\* additionalMap and it is composed with the dialect's own map when the
\* dialect gave one. For computed data the adapter returns as additionalMap
\* what the function gave: nothing for a string, the object's map otherwise.
C30_StaticDataGetsSyntheticMap ==
    resolvePc = "composed" =>
        LET additionalData == resolveIn.options.additionalData
            result == resolveIn.result
        IN  /\ IsStatic(additionalData) =>
                   /\ result.additionalMap = GenerateMap(resolveIn.options.filename)
                   /\ Truthy(result.map) => SyntheticMapComposed
            /\ IsComputed(additionalData) =>
                   /\ result.additionalMap =
                          (IF additionalData.as = "string" THEN UndefinedValue
                           ELSE additionalData.map)
                   /\ result.additionalMap # GenerateMap(resolveIn.options.filename)
            /\ NoAdditionalData(additionalData) => ~Truthy(result.additionalMap)

\* a stylus source with static additional data, composed with Stylus's map
C30_Witness ==
    /\ resolvePc = "composed"
    /\ resolveOut.compiler = "stylus"
    /\ IsStatic(resolveIn.options.additionalData)
    /\ resolveOut.content = <<Rule(3), LineBreak, Rule(1)>>
    /\ SyntheticMapComposed

----------------------------------------------------------------------------
(* C31 *)

\* the statement loads the chunk of that file name
References(piece, file) == piece.path = <<".", "/">> \o file

\* an import or require statement that references no registered pure css chunk
LoadsRetainedChunk(piece) ==
    /\ piece.t \in {"import", "require"}
    /\ \A file \in pureCssChunks : ~References(piece, file)

\* C31 as stated: pruning strips only import/require statements that
\* reference a chunk registered as pure css; a statement importing a
\* retained chunk whose file name merely ends with a removed chunk's base
\* name (mystyle.js when style.js is removed, or the same base name in
\* another directory) is left intact.
C31_RetainedImportsLeftIntact ==
    [][\A o \in OutputIds :
          PruneStep(o) =>
              \A i \in 1..Len(bundle[o]) :
                  HasFile(bundle'[o], bundle[o][i].fileName) =>
                      LET before == bundle[o][i].code
                          after == BundleGet(bundle'[o], bundle[o][i].fileName).code
                      IN  \A k \in 1..Len(before) :
                              LoadsRetainedChunk(before[k]) => after[k] = before[k]]_vars

----------------------------------------------------------------------------
(* C32 *)

\* generateBundle of output o has pruned style.js, which imported the pure
\* css chunk c.js, and the entry chunk that imported style.js is retained;
\* the css of both chunks was emitted as an asset of its own
NestedPruned(o) ==
    /\ phase = "generate"
    /\ RenderBranch(o) = "asset"
    /\ gb[o].pc = "done"
    /\ {StyleFile, NestedFile} \subseteq pureCssChunks
    /\ {StyleFile, NestedFile} \subseteq DOMAIN removedPureCssFiles
    /\ HasFile(bundle[o], MainFile)

\* the names of the css assets registered under a chunk
ImportedCssNames(chunk) == {asset.asset : asset \in chunk.importedCss}

\* C32 as stated: pruning loses no css reference: when a pure css chunk A
\* itself imports another pure css chunk C, every retained chunk that
\* imports A ends up with the css assets of both A and C in its importedCss,
\* whatever the iteration order of the bundle.
C32_NestedCssReachesImporter ==
    \A o \in OutputIds :
        NestedPruned(o) =>
            {<<"style", ".css">>, <<"c", ".css">>}
                \subseteq ImportedCssNames(BundleGet(bundle[o], MainFile))

----------------------------------------------------------------------------
(* C33 *)

\* no promise of the importer call is pending any more
ImporterQuiet == resolvePc \in {"settled", "unhandled"}

\* C33 as stated: for every invocation of the Sass adapter's internal
\* importer, the done callback is eventually called exactly once, with the
\* rebased file data, with null on a resolution miss, or with the error,
\* including when the resolver or the rebase step fails.
C33_DoneCalledOnce == ImporterQuiet => Len(resolveOut) = 1

----------------------------------------------------------------------------
(* C34 *)

\* both transform hooks have answered a browser-target, non-direct dev
\* request of a module the graph holds
ServedToBrowser(t) ==
    /\ ServedCss(t)
    /\ ~tf[t].ssr
    /\ ~IsDirectCSSRequest(tf[t].id)
    /\ tf[t].id \in DOMAIN moduleGraph

\* C34: for a browser-target, non-direct dev request of a module present in
\* the module graph, the self-accepting flag that cssPlugin records in the
\* module graph is true exactly when the code produced by cssPostPlugin for
\* the same module contains import.meta.hot.accept().
C34_SelfAcceptingMatchesAccept ==
    \A t \in Tasks :
        ServedToBrowser(t) =>
            (moduleGraph[tf[t].id].isSelfAccepting
                <=> "import.meta.hot.accept()" \in CallsIn(tf[t].out))

\* an ?inline request answered without accept() and recorded as not
\* self-accepting, a plain stylesheet answered with accept() and recorded
\* as self-accepting
C34_Witness ==
    \E t, u \in Tasks :
        /\ ServedToBrowser(t) /\ ServedToBrowser(u)
        /\ InlineRE(tf[t].id)
        /\ ~moduleGraph[tf[t].id].isSelfAccepting
        /\ "import.meta.hot.accept()" \notin CallsIn(tf[t].out)
        /\ tf[u].id = CssA
        /\ moduleGraph[CssA].isSelfAccepting
        /\ "import.meta.hot.accept()" \in CallsIn(tf[u].out)

----------------------------------------------------------------------------
(* C35 *)

\* the text went through minifyCSS
IsMinified(css) == \E k \in DOMAIN css : css[k].min

\* the css strings a module's transform exports
ExportedCss(out) ==
    { out[k].value : k \in {j \in DOMAIN out : out[j].stmt = "export default"} }

\* C35 as stated: when build minification is disabled, no css text produced
\* in build mode is passed through the minifier: neither per-chunk css, nor
\* the aggregated asset, nor the css string exported by a module's transform.
C35_NothingMinifiedWhenDisabled ==
    (config.command = "build" /\ ~config.minify) =>
        /\ \A file \in BagToSet(emitted) : ~IsMinified(file.source)
        /\ \A t \in Tasks :
               tf[t].pc = "posted" /\ IsCSSRequest(tf[t].id)
                   /\ ~CommonjsProxyRE(tf[t].id)
                   => \A css \in ExportedCss(tf[t].out) : ~IsMinified(css)

----------------------------------------------------------------------------
(* C36 *)

\* the step is the return of cssPostPlugin.transform for task t
PostTransformStep(t) == tf[t].pc = "done" /\ tf'[t].pc = "posted"

\* C36: buildStart leaves the recorded-styles map unchanged: css recorded
\* by transforms of a previous build stays available to renderChunk in the
\* next build for modules that are not transformed again, and an entry is
\* only ever replaced by a later transform of the same id.
C36_StylesKeptAcrossBuilds ==
    [][/\ (phase' # phase \/ build' # build) => styles' = styles
       /\ DOMAIN styles \subseteq DOMAIN styles'
       /\ styles' # styles =>
              \E t \in Tasks :
                  /\ PostTransformStep(t)
                  /\ DOMAIN styles' = DOMAIN styles \cup {tf[t].id}
                  /\ \A id \in DOMAIN styles :
                         id # tf[t].id => styles'[id] = styles[id]]_vars

\* the second build renders a.css, which only the first build transformed:
\* its css, still recorded, is emitted again
C36_Witness ==
    /\ build = 2
    /\ phase = "generate"
    /\ \A t \in Tasks : tf[t].pc # "idle" => tf[t].session = 1
    /\ \E t \in Tasks : tf[t].pc = "posted" /\ tf[t].id = CssA
    /\ CssA \in DOMAIN styles
    /\ \E file \in BagToSet(emitted) : file.source = styles[CssA]

====
